---- MODULE Spec2Model ----
(***************************************************************************)
(* A model of the Proton Pass launcher extension: the local cache          *)
(* (src/lib/cache.ts), the TOTP countdown (src/lib/utils.ts) and the load  *)
(* and refresh flows of the item-search, vault-list and TOTP views.        *)
(***************************************************************************)
EXTENDS Integers, Sequences, FiniteSets, TLC

(***************************************************************************)
(* Bounds of the model.                                                    *)
(***************************************************************************)
\* The clock of the cache model runs over this many TTL periods.
MaxPeriods == 2

\* The refreshTotpCodes calls that can be in flight at once.
MaxInFlight == 2

\* How long the TOTP view stays open (ms): in the model of the views, and in
\* the model of its timer.
ViewHorizon == 30000
TickHorizon == 65000

\* The longest array of entries a listing of the command-line tool holds.
MaxEntries == 2

(***************************************************************************)
(* JavaScript values.  An object is a function from its keys to values; a  *)
(* property that is absent reads as undefined.                             *)
(***************************************************************************)
Undefined == "<undefined>"

\* lib/types.ts: the properties typed `string | undefined`; every other
\* property of an Item or a Vault always holds a value.
OptionalKeys == {"username", "email", "currentTotp"}

\* o[k] === undefined, for a property that is absent or holds undefined.
IsUndefinedAt(o, k) == k \notin DOMAIN o \/ (k \in OptionalKeys /\ o[k] = Undefined)

\* o.k, for an optional property.
Get(o, k) == IF k \in DOMAIN o THEN o[k] ELSE Undefined

\* lib/types.ts: the fields of an Item.
ItemKeys == {"shareId", "itemId", "title", "type", "vaultName", "username", "email", "hasTotp"}

\* Deep equality of two lists of plain objects: same length, and every
\* property reads the same on both sides (an absent property and a property
\* holding undefined are not told apart, as in a test's toEqual).
JsEqual(a, b) ==
    /\ Len(a) = Len(b)
    /\ \A i \in 1..Len(a) :
         \A k \in (DOMAIN a[i]) \cup (DOMAIN b[i]) :
            IF IsUndefinedAt(a[i], k) \/ IsUndefinedAt(b[i], k)
            THEN IsUndefinedAt(a[i], k) /\ IsUndefinedAt(b[i], k)
            ELSE a[i][k] = b[i][k]

(***************************************************************************)
(* The records the command-line tool can report (normalizeItem and         *)
(* normalizeVault build them; an optional field that is missing is set to  *)
(* undefined explicitly).                                                  *)
(***************************************************************************)
MkItem(share, id, heading, ty, vault, user, totp) ==
    [shareId |-> share, itemId |-> id, title |-> heading, type |-> ty,
     vaultName |-> vault, username |-> user, email |-> Undefined, hasTotp |-> totp]

MkVault(share, label, count, access) ==
    [shareId |-> share, name |-> label, itemCount |-> count, role |-> access]

ItemA == MkItem("s1", "i1", "Mail", "login", "Personal", "ann", TRUE)
ItemB == MkItem("s1", "i2", "Memo", "note", "Personal", Undefined, FALSE)
ItemC == MkItem("s2", "i3", "Bank", "login", "Work", Undefined, TRUE)

VaultP == MkVault("s1", "Personal", 2, "owner")
VaultW == MkVault("s2", "Work", 1, "viewer")

\* The item lists and vault lists a listing can return.
ItemLists == {<<>>, <<ItemB>>, <<ItemA, ItemB>>, <<ItemA, ItemB, ItemC>>}
VaultLists == {<<>>, <<VaultP>>, <<VaultP, VaultW>>}

(***************************************************************************)
(* JSON.  A stored text is modelled by the value it denotes.               *)
(*   JSON.stringify drops every property whose value is undefined;         *)
(*   JSON.parse gives back the value, or throws on a text that is no JSON. *)
(***************************************************************************)
StringifyObject(o) == [k \in {x \in DOMAIN o : ~IsUndefinedAt(o, x)} |-> o[k]]

StringifyList(list) == [i \in 1..Len(list) |-> StringifyObject(list[i])]

\* The values of a parsed "timestamp" property.
TsNumber(n) == [t |-> "number", v |-> n]
TsNumericString(n) == [t |-> "numstr", v |-> n]
TsText == [t |-> "string"]
TsNull == [t |-> "null"]
TsAbsent == [t |-> "undefined"]

\* The values of a parsed "data" property.
DataList(list) == [t |-> "list", v |-> list]
DataAbsent == [t |-> "undefined"]

\* What a stored text parses to.
JsonNull == [t |-> "null"]
JsonPrimitive == [t |-> "primitive"]
JsonObject(data, timestamp) == [t |-> "object", data |-> data, timestamp |-> timestamp]

\* The states of one LocalStorage key.
NoEntry == [kind |-> "none"]
EmptyText == [kind |-> "empty"]
NotJson == [kind |-> "notjson"]
JsonText(value) == [kind |-> "json", value |-> value]

\* JSON.stringify({ data, timestamp }) as setCache writes it.
StringifyCached(data, timestamp) ==
    JsonText(JsonObject(DataList(StringifyList(data)), TsNumber(timestamp)))

(***************************************************************************)
(* Arithmetic of JavaScript numbers as far as the cache needs it.          *)
(***************************************************************************)
NaN == [nan |-> TRUE]
Num(n) == [nan |-> FALSE, v |-> n]

\* ToNumber, applied by the subtraction to its right operand.
ToNumber(x) ==
    CASE x.t = "number" -> Num(x.v)
      [] x.t = "numstr" -> Num(x.v)
      [] x.t = "null" -> Num(0)
      [] OTHER -> NaN

\* lib/cache.ts
CACHE_TTL_MS == 5 * 60 * 1000
ITEMS_CACHE_KEY == "proton_pass_items_cache"
VAULTS_CACHE_KEY == "proton_pass_vaults_cache"
CacheKeys == {ITEMS_CACHE_KEY, VAULTS_CACHE_KEY}

\* A variant of isCacheValid that accepts an entry aged exactly the TTL.
isCacheValidInclusive(timestamp, clock) ==
    LET ts == ToNumber(timestamp)
    IN  IF ts.nan THEN FALSE ELSE clock - ts.v <= CACHE_TTL_MS

\* isCacheValid: Date.now() - cached.timestamp < CACHE_TTL_MS; a comparison
\* with NaN is false.
isCacheValid(timestamp, clock) ==
    LET ts == ToNumber(timestamp)
    IN  IF ts.nan THEN FALSE ELSE clock - ts.v < CACHE_TTL_MS

\* The results of a cache read.
RNull == [kind |-> "null"]
RUndefined == [kind |-> "undefined"]
RValue(list) == [kind |-> "value", data |-> list]

\* getCache / getCachedItems / getCachedVaults, on the stored text `raw`:
\*   a rejected storage access, a text that is no JSON and a property read
\*   on null all land in the catch and give null.
getCache(raw, storageFails, clock) ==
    IF storageFails THEN RNull
    ELSE IF raw.kind \in {"none", "empty"} THEN RNull
    ELSE IF raw.kind = "notjson" THEN RNull
    ELSE IF raw.value.t = "null" THEN RNull
    ELSE IF raw.value.t = "primitive" THEN RNull
    ELSE IF ~isCacheValid(raw.value.timestamp, clock) THEN RNull
    ELSE IF raw.value.data.t = "undefined" THEN RUndefined
    ELSE RValue(raw.value.data.v)

\* A variant of setCache that keeps a slot's first capture time.
setCacheKeepTimestamp(old, data, clock) ==
    IF old.kind = "json" /\ old.value.t = "object" /\ old.value.timestamp.t = "number"
    THEN StringifyCached(data, old.value.timestamp.v)
    ELSE StringifyCached(data, clock)

\* setCache: the text written for `data` at time `clock`, whatever the slot held.
setCache(old, data, clock) == StringifyCached(data, clock)

VARIABLES
    now,        \* Date.now(), in milliseconds
    store,      \* LocalStorage: the stored text of each cache key
    lastRead,   \* the most recent cache read: its key, input and result
    lastWrite,  \* per key, the argument and time of the write not yet cleared
    cmd,        \* the command (view) that is open: "none", "search", "vaults", "totp"
    search,     \* search-items Command: its React state, refs and loadItems' position
    vlist,      \* vault-list Command: its React state, refs and loadVaults' position
    vitems,     \* VaultItems, pushed from the vault list: its state and loadVaultItems' position
    totp,       \* TOTP Command: its React state, refs and loadTotpItems' position
    refreshes,  \* the refreshTotpCodes calls in flight: the snapshot each one read
    lastBatch,  \* the refreshTotpCodes call that has just completed
    tick,       \* the interval timer of the TOTP view and what its ticks triggered
    proc,       \* runCli: the invocation in progress, its spawns and its outcome
    call        \* the domain operation in progress: its inputs, position and result

cacheVars == <<now, store, lastRead, lastWrite>>
viewVars == <<cmd, search, vlist, vitems, totp, refreshes, lastBatch, tick>>
cliVars == <<proc, call>>
vars == <<now, store, lastRead, lastWrite, cmd, search, vlist, vitems, totp, refreshes, lastBatch,
          tick, proc, call>>

NoWrite == [written |-> FALSE]
NoRead == [key |-> "none"]

\* The instants at which the cache is used: the start of each TTL period,
\* one millisecond later and one millisecond before the next period.
\* The first instant lies a full TTL after the epoch, as every real clock
\* reading does, so a timestamp of 0 is always expired.
StartOfTime == CACHE_TTL_MS

Instants ==
    {StartOfTime + p * CACHE_TTL_MS + e : p \in 0..MaxPeriods, e \in {0, 1, CACHE_TTL_MS - 1}}

\* The stored texts that something other than setCache may have left in a
\* slot (another release, a damaged store).
ForeignTexts ==
    {EmptyText, NotJson, JsonText(JsonNull), JsonText(JsonPrimitive),
     JsonText(JsonObject(DataAbsent, TsNumber(StartOfTime)))}
    \cup {JsonText(JsonObject(DataList(StringifyList(<<ItemA, ItemB>>)), ts)) :
            ts \in {TsAbsent, TsNull, TsText, TsNumericString(StartOfTime)}}

\* A view that is not open, no completed refresh, no timer.
Closed == [pc |-> "closed"]
NoBatch == [done |-> FALSE]
NoTimer == [active |-> FALSE]

\* No invocation of the command-line tool, no domain operation.
NoProcess == [pc |-> "none"]
NoCall == [op |-> "none"]

InitCache ==
    /\ now = StartOfTime
    /\ store = [k \in CacheKeys |-> NoEntry]
    /\ lastRead = NoRead
    /\ lastWrite = [k \in CacheKeys |-> NoWrite]
    /\ cmd = "none"
    /\ search = Closed
    /\ vlist = Closed
    /\ vitems = Closed
    /\ totp = Closed
    /\ refreshes = <<>>
    /\ lastBatch = NoBatch
    /\ tick = NoTimer
    /\ proc = NoProcess
    /\ call = NoCall

\* Date.now() moves on to a later instant.
AdvanceClock ==
    /\ \E t \in Instants : t > now /\ now' = t
    /\ lastRead' = NoRead
    /\ UNCHANGED <<store, lastWrite>>
    /\ UNCHANGED viewVars
    /\ UNCHANGED cliVars

\* getCachedItems() / getCachedVaults()
CacheRead(key, storageFails) ==
    /\ lastRead' = [key |-> key, raw |-> store[key], at |-> now,
                    storageFails |-> storageFails, wrote |-> lastWrite[key],
                    result |-> getCache(store[key], storageFails, now)]
    /\ UNCHANGED <<now, store, lastWrite>>
    /\ UNCHANGED viewVars
    /\ UNCHANGED cliVars

GetCachedItems == \E f \in BOOLEAN : CacheRead(ITEMS_CACHE_KEY, f)
GetCachedVaults == \E f \in BOOLEAN : CacheRead(VAULTS_CACHE_KEY, f)

\* setCachedItems(items) / setCachedVaults(vaults)
CacheWrite(key, data) ==
    /\ store' = [store EXCEPT ![key] = setCache(store[key], data, now)]
    /\ lastWrite' = [lastWrite EXCEPT ![key] = [written |-> TRUE, v |-> data, at |-> now]]
    /\ lastRead' = NoRead
    /\ UNCHANGED now
    /\ UNCHANGED viewVars
    /\ UNCHANGED cliVars

SetCachedItems == \E items \in ItemLists : CacheWrite(ITEMS_CACHE_KEY, items)
SetCachedVaults == \E vaults \in VaultLists : CacheWrite(VAULTS_CACHE_KEY, vaults)

\* clearCache(): both keys are removed.
ClearCache ==
    /\ store' = [k \in CacheKeys |-> NoEntry]
    /\ lastWrite' = [k \in CacheKeys |-> NoWrite]
    /\ lastRead' = NoRead
    /\ UNCHANGED now
    /\ UNCHANGED viewVars
    /\ UNCHANGED cliVars

\* The store is changed from outside the cache module.
ForeignWrite ==
    /\ \E key \in CacheKeys, text \in ForeignTexts :
         /\ store' = [store EXCEPT ![key] = text]
         /\ lastWrite' = [lastWrite EXCEPT ![key] = NoWrite]
    /\ lastRead' = NoRead
    /\ UNCHANGED now
    /\ UNCHANGED viewVars
    /\ UNCHANGED cliVars

NextCache ==
    \/ AdvanceClock
    \/ GetCachedItems
    \/ GetCachedVaults
    \/ SetCachedItems
    \/ SetCachedVaults
    \/ ClearCache
    \/ ForeignWrite

SpecCache == InitCache /\ [][NextCache]_vars

(***************************************************************************)
(* The command-line tool as the views see it (lib/pass-cli.ts): every call *)
(* either resolves with a value or rejects with a classified error.        *)
(***************************************************************************)
\* lib/types.ts: PassCliErrorType
PassCliErrorTypes ==
    {"not_installed", "not_authenticated", "network_error", "keyring_error",
     "timeout", "invalid_output", "unknown"}

Ok(value) == [v |-> value, ok |-> TRUE]
Throws(type) == [type |-> type, ok |-> FALSE]

\* checkAuth(): true, false (the probe failed with not_authenticated), or any
\* other failure of runCli re-raised.
CheckAuthOutcomes ==
    {Ok(TRUE), Ok(FALSE)}
    \cup {Throws(t) : t \in {"not_installed", "network_error", "keyring_error", "timeout", "unknown"}}

\* listItems() and listVaults().
ListItemsOutcomes == {Ok(l) : l \in ItemLists} \cup {Throws(t) : t \in PassCliErrorTypes}
ListVaultsOutcomes == {Ok(l) : l \in VaultLists} \cup {Throws(t) : t \in PassCliErrorTypes}

\* The error state of a view: null, or the type of the error shown.
NoError == "null"

\* lib/error-views.tsx, getErrorConfig(type).showRetry: the error view offers
\* "Retry" for every error but not_installed and not_authenticated.
ShowRetry(type) == type \notin {"not_installed", "not_authenticated"}

\* `if (cached)`: null and undefined are falsy, every array is truthy.
Truthy(r) == r.kind = "value"

(***************************************************************************)
(* search-items.tsx, Command: the item-search view.                        *)
(***************************************************************************)
\* The state after the first render: the effect has called loadItems(), which
\* has run setError(null) and awaits the two cache reads.
SearchMounted ==
    [pc |-> "cache", exit |-> "none",
     items |-> <<>>, vaults |-> <<>>, error |-> NoError, isLoading |-> TRUE,
     hasLoadedFromCache |-> FALSE, freshItems |-> <<>>, freshVaults |-> <<>>]

\* loadItems, lines 270-275: the cached lists are displayed when both reads
\* gave a value and nothing was displayed from the cache before.
loadItemsShowCache(v, cachedItems, cachedVaults) ==
    IF Truthy(cachedItems) /\ Truthy(cachedVaults) /\ ~v.hasLoadedFromCache
    THEN [v EXCEPT !.items = cachedItems.data, !.vaults = cachedVaults.data,
                   !.isLoading = FALSE, !.hasLoadedFromCache = TRUE]
    ELSE v

\* loadItems / loadVaults, `if (!isAuth)`: the error is set and the load returns
\* (the finally block sets isLoading to false once more).
loadNotAuthenticated(v) ==
    [v EXCEPT !.error = "not_authenticated", !.isLoading = FALSE,
              !.pc = "done", !.exit = "unauthenticated"]

\* loadItems / loadVaults, catch and finally: the error is set only when
\* nothing was displayed from the cache.
loadCatch(v, type) ==
    [(IF ~v.hasLoadedFromCache THEN [v EXCEPT !.error = type] ELSE v)
        EXCEPT !.isLoading = FALSE, !.pc = "done", !.exit = "caught"]

\* A variant of the cache writes of loadItems that leaves the vaults slot alone.
loadItemsSaveItemsOnly(st, freshItems, freshVaults, clock) ==
    [st EXCEPT ![ITEMS_CACHE_KEY] = setCache(st[ITEMS_CACHE_KEY], freshItems, clock)]

\* loadItems, line 289: both slots are written with the fresh lists.
loadItemsSave(st, freshItems, freshVaults, clock) ==
    [st EXCEPT ![ITEMS_CACHE_KEY] = setCache(st[ITEMS_CACHE_KEY], freshItems, clock),
               ![VAULTS_CACHE_KEY] = setCache(st[VAULTS_CACHE_KEY], freshVaults, clock)]

\* loadItems resumes after the cache reads, then calls checkAuth().
LoadItemsCache ==
    /\ cmd = "search" /\ search.pc = "cache"
    /\ \E f1 \in BOOLEAN, f2 \in BOOLEAN :
         search' = [loadItemsShowCache(search,
                                       getCache(store[ITEMS_CACHE_KEY], f1, now),
                                       getCache(store[VAULTS_CACHE_KEY], f2, now))
                       EXCEPT !.pc = "auth"]
    /\ UNCHANGED <<now, store, lastRead, lastWrite, cmd, vitems, vlist, totp, refreshes, lastBatch, tick>>
    /\ UNCHANGED cliVars

\* checkAuth() settles.
LoadItemsAuth ==
    /\ cmd = "search" /\ search.pc = "auth"
    /\ \E o \in CheckAuthOutcomes :
         search' = IF ~o.ok THEN loadCatch(search, o.type)
                   ELSE IF o.v THEN [search EXCEPT !.pc = "fetch"]
                   ELSE loadNotAuthenticated(search)
    /\ UNCHANGED <<now, store, lastRead, lastWrite, cmd, vitems, vlist, totp, refreshes, lastBatch, tick>>
    /\ UNCHANGED cliVars

\* Promise.all([listItems(), listVaults()]) settles: with both lists, or with
\* the error of a call that rejected.
LoadItemsFetch ==
    /\ cmd = "search" /\ search.pc = "fetch"
    /\ \E oi \in ListItemsOutcomes, ov \in ListVaultsOutcomes :
         IF oi.ok /\ ov.ok
         THEN search' = [search EXCEPT !.items = oi.v, !.vaults = ov.v,
                                       !.freshItems = oi.v, !.freshVaults = ov.v,
                                       !.pc = "save"]
         ELSE \E o \in {x \in {oi, ov} : ~x.ok} : search' = loadCatch(search, o.type)
    /\ UNCHANGED <<now, store, lastRead, lastWrite, cmd, vitems, vlist, totp, refreshes, lastBatch, tick>>
    /\ UNCHANGED cliVars

\* Promise.all([setCachedItems(freshItems), setCachedVaults(freshVaults)])
\* settles, then the finally block runs.
LoadItemsSave ==
    /\ cmd = "search" /\ search.pc = "save"
    /\ store' = loadItemsSave(store, search.freshItems, search.freshVaults, now)
    /\ search' = [search EXCEPT !.isLoading = FALSE, !.pc = "done", !.exit = "saved"]
    /\ UNCHANGED <<now, lastRead, lastWrite, cmd, vitems, vlist, totp, refreshes, lastBatch, tick>>
    /\ UNCHANGED cliVars

\* The "Retry" action of the error view calls loadItems() again.
RetryLoadItems ==
    /\ cmd = "search" /\ search.pc = "done"
    /\ search.error # NoError /\ ShowRetry(search.error)
    /\ search' = [search EXCEPT !.error = NoError, !.pc = "cache", !.exit = "none"]
    /\ UNCHANGED <<now, store, lastRead, lastWrite, cmd, vitems, vlist, totp, refreshes, lastBatch, tick>>
    /\ UNCHANGED cliVars

(***************************************************************************)
(* The vault-list view (Command with loadVaults).                          *)
(***************************************************************************)
VaultListMounted ==
    [pc |-> "cache", exit |-> "none",
     vaults |-> <<>>, error |-> NoError, isLoading |-> TRUE,
     hasLoadedFromCache |-> FALSE, freshVaults |-> <<>>]

\* loadVaults, lines 118-122.
loadVaultsShowCache(v, cachedVaults) ==
    IF Truthy(cachedVaults) /\ ~v.hasLoadedFromCache
    THEN [v EXCEPT !.vaults = cachedVaults.data, !.isLoading = FALSE,
                   !.hasLoadedFromCache = TRUE]
    ELSE v

LoadVaultsCache ==
    /\ cmd = "vaults" /\ vlist.pc = "cache"
    /\ \E f \in BOOLEAN :
         vlist' = [loadVaultsShowCache(vlist, getCache(store[VAULTS_CACHE_KEY], f, now))
                      EXCEPT !.pc = "auth"]
    /\ UNCHANGED <<now, store, lastRead, lastWrite, cmd, vitems, search, totp, refreshes, lastBatch, tick>>
    /\ UNCHANGED cliVars

LoadVaultsAuth ==
    /\ cmd = "vaults" /\ vlist.pc = "auth"
    /\ \E o \in CheckAuthOutcomes :
         vlist' = IF ~o.ok THEN loadCatch(vlist, o.type)
                  ELSE IF o.v THEN [vlist EXCEPT !.pc = "fetch"]
                  ELSE loadNotAuthenticated(vlist)
    /\ UNCHANGED <<now, store, lastRead, lastWrite, cmd, vitems, search, totp, refreshes, lastBatch, tick>>
    /\ UNCHANGED cliVars

\* listVaults() settles.
LoadVaultsFetch ==
    /\ cmd = "vaults" /\ vlist.pc = "fetch"
    /\ \E o \in ListVaultsOutcomes :
         vlist' = IF o.ok
                  THEN [vlist EXCEPT !.vaults = o.v, !.freshVaults = o.v, !.pc = "save"]
                  ELSE loadCatch(vlist, o.type)
    /\ UNCHANGED <<now, store, lastRead, lastWrite, cmd, vitems, search, totp, refreshes, lastBatch, tick>>
    /\ UNCHANGED cliVars

\* setCachedVaults(freshVaults) settles, then the finally block runs.
LoadVaultsSave ==
    /\ cmd = "vaults" /\ vlist.pc = "save"
    /\ store' = [store EXCEPT ![VAULTS_CACHE_KEY] =
                                 setCache(store[VAULTS_CACHE_KEY], vlist.freshVaults, now)]
    /\ vlist' = [vlist EXCEPT !.isLoading = FALSE, !.pc = "done", !.exit = "saved"]
    /\ UNCHANGED <<now, lastRead, lastWrite, cmd, vitems, search, totp, refreshes, lastBatch, tick>>
    /\ UNCHANGED cliVars

RetryLoadVaults ==
    /\ cmd = "vaults" /\ vlist.pc = "done"
    /\ vlist.error # NoError /\ ShowRetry(vlist.error)
    /\ vlist' = [vlist EXCEPT !.error = NoError, !.pc = "cache", !.exit = "none"]
    /\ UNCHANGED <<now, store, lastRead, lastWrite, cmd, vitems, search, totp, refreshes, lastBatch, tick>>
    /\ UNCHANGED cliVars

\* Time passes while the item-search or the vault-list view is open.
ViewWait ==
    /\ cmd \in {"search", "vaults"}
    /\ \E t \in Instants : t > now /\ now' = t
    /\ UNCHANGED <<store, lastRead, lastWrite>>
    /\ UNCHANGED cliVars
    /\ UNCHANGED viewVars
    /\ UNCHANGED cliVars

(***************************************************************************)
(* VaultItems (vaults view): the items of one vault, pushed from the list. *)
(***************************************************************************)
\* The items of the account, in the order an all-vault listing returns them.
AccountItems == <<ItemA, ItemB, ItemC>>

\* (item) => item.shareId === vault.shareId
ItemsOfVault(list, shareId) ==
    LET inVault(item) == item.shareId = shareId
    IN  SelectSeq(list, inVault)

\* listItems(vault.shareId): the items of that vault, or a failure of one of
\* its CLI calls.
VaultListingOutcomes(vault) ==
    {Ok(ItemsOfVault(AccountItems, vault.shareId))} \cup {Throws(t) : t \in PassCliErrorTypes}

\* The state after the first render: the effect has called loadVaultItems(),
\* which awaits the cache read.
VaultItemsMounted(vault) ==
    [pc |-> "cache", exit |-> "none", vault |-> vault,
     items |-> <<>>, isLoading |-> TRUE, hasLoadedFromCache |-> FALSE,
     freshItems |-> <<>>, toast |-> NoError]

\* loadVaultItems, lines 29-36: the cached items of the vault are displayed
\* when there are any.
loadVaultItemsShowCache(v, cachedItems) ==
    IF Truthy(cachedItems) /\ ~v.hasLoadedFromCache
       /\ Len(ItemsOfVault(cachedItems.data, v.vault.shareId)) > 0
    THEN [v EXCEPT !.items = ItemsOfVault(cachedItems.data, v.vault.shareId),
                   !.isLoading = FALSE, !.hasLoadedFromCache = TRUE]
    ELSE v

\* A variant of the catch and finally blocks that leaves isLoading as it is.
loadVaultItemsCatchKeepLoading(v, type) ==
    [(IF ~v.hasLoadedFromCache THEN [v EXCEPT !.toast = type] ELSE v)
        EXCEPT !.pc = "done", !.exit = "caught"]

\* loadVaultItems, catch and finally: a failure toast is shown only when
\* nothing was displayed from the cache.
loadVaultItemsCatch(v, type) ==
    [(IF ~v.hasLoadedFromCache THEN [v EXCEPT !.toast = type] ELSE v)
        EXCEPT !.isLoading = FALSE, !.pc = "done", !.exit = "caught"]

\* A variant of the cache write of loadVaultItems that writes nothing.
loadVaultItemsSaveNothing(st, freshItems, clock) == st

\* loadVaultItems, line 41: setCachedItems(freshItems).
loadVaultItemsSave(st, freshItems, clock) ==
    [st EXCEPT ![ITEMS_CACHE_KEY] = setCache(st[ITEMS_CACHE_KEY], freshItems, clock)]

\* "View Items" on a vault of the list pushes VaultItems for that vault.
OpenVault ==
    /\ cmd = "vaults" /\ vitems = Closed
    /\ vlist.error = NoError
    /\ \E i \in 1..Len(vlist.vaults) : vitems' = VaultItemsMounted(vlist.vaults[i])
    /\ UNCHANGED <<now, store, lastRead, lastWrite, cmd, search, vlist, totp, refreshes, lastBatch, tick>>
    /\ UNCHANGED cliVars

\* loadVaultItems resumes after the cache read, then calls listItems(shareId).
LoadVaultItemsCache ==
    /\ cmd = "vaults" /\ vitems.pc = "cache"
    /\ \E f \in BOOLEAN :
         vitems' = [loadVaultItemsShowCache(vitems, getCache(store[ITEMS_CACHE_KEY], f, now))
                       EXCEPT !.pc = "fetch"]
    /\ UNCHANGED <<now, store, lastRead, lastWrite, cmd, search, vlist, totp, refreshes, lastBatch, tick>>
    /\ UNCHANGED cliVars

\* listItems(vault.shareId) settles.
LoadVaultItemsFetch ==
    /\ cmd = "vaults" /\ vitems.pc = "fetch"
    /\ \E o \in VaultListingOutcomes(vitems.vault) :
         vitems' = IF o.ok
                   THEN [vitems EXCEPT !.items = o.v, !.freshItems = o.v, !.pc = "save"]
                   ELSE loadVaultItemsCatch(vitems, o.type)
    /\ UNCHANGED <<now, store, lastRead, lastWrite, cmd, search, vlist, totp, refreshes, lastBatch, tick>>
    /\ UNCHANGED cliVars

\* setCachedItems(freshItems) settles: the slot is written, or the storage
\* rejects and the catch block runs; then the finally block runs.
LoadVaultItemsSave ==
    /\ cmd = "vaults" /\ vitems.pc = "save"
    /\ \E storageFails \in BOOLEAN :
         IF storageFails
         THEN /\ vitems' = loadVaultItemsCatch(vitems, "unknown")
              /\ store' = store
         ELSE /\ vitems' = [vitems EXCEPT !.isLoading = FALSE, !.pc = "done", !.exit = "saved"]
              /\ store' = loadVaultItemsSave(store, vitems.freshItems, now)
    /\ UNCHANGED <<now, lastRead, lastWrite, cmd, search, vlist, totp, refreshes, lastBatch, tick>>
    /\ UNCHANGED cliVars

\* The user goes back to the vault list once the items are loaded.
CloseVault ==
    /\ cmd = "vaults" /\ vitems # Closed /\ vitems.pc = "done"
    /\ vitems' = Closed
    /\ UNCHANGED <<now, store, lastRead, lastWrite, cmd, search, vlist, totp, refreshes, lastBatch, tick>>
    /\ UNCHANGED cliVars

(***************************************************************************)
(* lib/utils.ts                                                            *)
(***************************************************************************)
\* A variant of getTotpRemainingSeconds that rounds the clock to the nearest
\* second instead of flooring it.
getTotpRemainingSecondsRounded(clock) ==
    LET n == (clock + 500) \div 1000
        timeStep == 30
        secondsElapsed == n % timeStep
    IN  timeStep - secondsElapsed

\* getTotpRemainingSeconds(), with Date.now() = clock.
getTotpRemainingSeconds(clock) ==
    LET n == clock \div 1000
        timeStep == 30
        secondsElapsed == n % timeStep
    IN  timeStep - secondsElapsed

(***************************************************************************)
(* The TOTP view (Command with loadTotpItems and refreshTotpCodes).        *)
(***************************************************************************)
\* The code of an item's secret changes with the 30-second window of the
\* clock; two codes, alternating, stand for the sequence of codes.
CodeAt(clock) == IF (clock \div 30000) % 2 = 0 THEN "111111" ELSE "222222"

\* getTotp(shareId, itemId) at time `clock`: the code of the window, or a
\* rejection (whose error the callers discard).
GetTotpOutcomes(clock) == {Ok(CodeAt(clock)), Throws("invalid_output")}

\* The outcomes of the getTotp calls issued for the items of `list`.
BatchOutcomes(list, clock) == [1..Len(list) -> GetTotpOutcomes(clock)]

\* items.filter((item) => item.hasTotp)
RECURSIVE FilterHasTotp(_)
FilterHasTotp(list) ==
    IF list = <<>> THEN <<>>
    ELSE IF Head(list).hasTotp THEN <<Head(list)>> \o FilterHasTotp(Tail(list))
    ELSE FilterHasTotp(Tail(list))

\* { ...item, currentTotp: code }
WithTotp(item, code) ==
    [k \in (DOMAIN item) \cup {"currentTotp"} |->
        IF k = "currentTotp" THEN code ELSE item[k]]

\* loadTotpItems, lines 46-49.
WithPlaceholder(list) == [i \in 1..Len(list) |-> WithTotp(list[i], Undefined)]

\* loadTotpItems, lines 54-63 and 81-90: an item whose fetch fails gets
\* currentTotp: undefined.
loadFetchCodes(list, outs) ==
    [i \in 1..Len(list) |->
        IF outs[i].ok THEN WithTotp(list[i], outs[i].v) ELSE WithTotp(list[i], Undefined)]

\* A variant of the refresh that blanks the code of an item whose fetch fails.
refreshCodesBlankOnFailure(currentItems, outs) ==
    [i \in 1..Len(currentItems) |->
        IF outs[i].ok THEN WithTotp(currentItems[i], outs[i].v)
        ELSE WithTotp(currentItems[i], Undefined)]

\* refreshTotpCodes, lines 111-120: an item whose fetch fails is returned as
\* it was in the snapshot.
refreshCodes(currentItems, outs) ==
    [i \in 1..Len(currentItems) |->
        IF outs[i].ok THEN WithTotp(currentItems[i], outs[i].v) ELSE currentItems[i]]

\* The state after the first render: remainingSeconds is initialised from the
\* clock, the effect has called loadTotpItems(), which awaits the cache read,
\* and has started the interval timer.
TotpMounted(clock) ==
    [pc |-> "cache", exit |-> "none",
     items |-> <<>>, itemsRef |-> <<>>, error |-> NoError,
     isLoading |-> TRUE, isRefreshing |-> FALSE,
     remainingSeconds |-> getTotpRemainingSeconds(clock),
     cachedItems |-> FALSE, cachedTotpItems |-> <<>>, freshItems |-> <<>>,
     shownFromCache |-> FALSE, mounted |-> TRUE]

\* The timer after setInterval: `window` is the 30-second window of the clock
\* at the mount or at the latest tick, `fired` the number of refresh batches
\* the ticks of that window have started, `whole` whether that window began
\* while the view was mounted, and `closed` the number of batches started in
\* the latest whole window that has ended (-1: none has ended yet).
TimerStarted(clock) ==
    [active |-> TRUE, window |-> clock \div 30000, fired |-> 0, whole |-> FALSE,
     closed |-> -1]

\* loadTotpItems, catch and finally: the error is set only when the cache read
\* gave nothing (`!cachedItems`).
loadTotpCatch(v, type) ==
    [(IF ~v.cachedItems THEN [v EXCEPT !.error = type] ELSE v)
        EXCEPT !.isLoading = FALSE, !.pc = "done", !.exit = "caught"]

\* loadTotpItems resumes after the cache read: it displays the cached TOTP
\* items with placeholders and fetches their codes, or goes on to checkAuth().
LoadTotpCache ==
    /\ cmd = "totp" /\ totp.pc = "cache"
    /\ \E f \in BOOLEAN :
         LET cachedItems == getCache(store[ITEMS_CACHE_KEY], f, now)
             cachedTotpItems == IF Truthy(cachedItems) THEN FilterHasTotp(cachedItems.data)
                                ELSE <<>>
         IN  totp' = IF Truthy(cachedItems) /\ Len(cachedTotpItems) > 0
                     THEN [totp EXCEPT !.items = WithPlaceholder(cachedTotpItems),
                                       !.itemsRef = WithPlaceholder(cachedTotpItems),
                                       !.isLoading = FALSE,
                                       !.cachedItems = TRUE,
                                       !.cachedTotpItems = cachedTotpItems,
                                       !.shownFromCache = TRUE,
                                       !.pc = "cachedCodes"]
                     ELSE [totp EXCEPT !.cachedItems = Truthy(cachedItems),
                                       !.cachedTotpItems = <<>>,
                                       !.pc = "auth"]
    /\ lastBatch' = NoBatch
    /\ UNCHANGED <<now, store, lastRead, lastWrite, cmd, vitems, search, vlist, refreshes, tick>>
    /\ UNCHANGED cliVars

\* The codes of the cached items have settled; checkAuth() is called.
LoadTotpCachedCodes ==
    /\ cmd = "totp" /\ totp.pc = "cachedCodes"
    /\ \E outs \in BatchOutcomes(totp.cachedTotpItems, now) :
         totp' = [totp EXCEPT !.items = loadFetchCodes(totp.cachedTotpItems, outs),
                              !.itemsRef = loadFetchCodes(totp.cachedTotpItems, outs),
                              !.pc = "auth"]
    /\ lastBatch' = NoBatch
    /\ UNCHANGED <<now, store, lastRead, lastWrite, cmd, vitems, search, vlist, refreshes, tick>>
    /\ UNCHANGED cliVars

LoadTotpAuth ==
    /\ cmd = "totp" /\ totp.pc = "auth"
    /\ \E o \in CheckAuthOutcomes :
         totp' = IF ~o.ok THEN loadTotpCatch(totp, o.type)
                 ELSE IF o.v THEN [totp EXCEPT !.pc = "list"]
                 ELSE loadNotAuthenticated(totp)
    /\ lastBatch' = NoBatch
    /\ UNCHANGED <<now, store, lastRead, lastWrite, cmd, vitems, search, vlist, refreshes, tick>>
    /\ UNCHANGED cliVars

\* listItems() settles.
LoadTotpList ==
    /\ cmd = "totp" /\ totp.pc = "list"
    /\ \E o \in ListItemsOutcomes :
         totp' = IF o.ok THEN [totp EXCEPT !.freshItems = o.v, !.pc = "save"]
                 ELSE loadTotpCatch(totp, o.type)
    /\ lastBatch' = NoBatch
    /\ UNCHANGED <<now, store, lastRead, lastWrite, cmd, vitems, search, vlist, refreshes, tick>>
    /\ UNCHANGED cliVars

\* setCachedItems(freshItems) settles; the codes of the fresh TOTP items are
\* fetched.
LoadTotpSave ==
    /\ cmd = "totp" /\ totp.pc = "save"
    /\ store' = [store EXCEPT ![ITEMS_CACHE_KEY] =
                                 setCache(store[ITEMS_CACHE_KEY], totp.freshItems, now)]
    /\ totp' = [totp EXCEPT !.pc = "freshCodes"]
    /\ lastBatch' = NoBatch
    /\ UNCHANGED <<now, lastRead, lastWrite, cmd, vitems, search, vlist, refreshes, tick>>
    /\ UNCHANGED cliVars

\* The codes of the fresh items have settled; then the finally block runs.
LoadTotpFreshCodes ==
    /\ cmd = "totp" /\ totp.pc = "freshCodes"
    /\ \E outs \in BatchOutcomes(FilterHasTotp(totp.freshItems), now) :
         totp' = [totp EXCEPT
                    !.items = loadFetchCodes(FilterHasTotp(totp.freshItems), outs),
                    !.itemsRef = loadFetchCodes(FilterHasTotp(totp.freshItems), outs),
                    !.isLoading = FALSE, !.pc = "done", !.exit = "saved"]
    /\ lastBatch' = NoBatch
    /\ UNCHANGED <<now, store, lastRead, lastWrite, cmd, vitems, search, vlist, refreshes, tick>>
    /\ UNCHANGED cliVars

\* The "Retry" action of the error view calls loadTotpItems() again.
RetryLoadTotp ==
    /\ cmd = "totp" /\ totp.mounted /\ totp.pc = "done"
    /\ totp.error # NoError /\ ShowRetry(totp.error)
    /\ totp' = [totp EXCEPT !.error = NoError, !.pc = "cache", !.exit = "none"]
    /\ lastBatch' = NoBatch
    /\ UNCHANGED <<now, store, lastRead, lastWrite, cmd, vitems, search, vlist, refreshes, tick>>
    /\ UNCHANGED cliVars

\* refreshTotpCodes() up to its await: setIsRefreshing(true), the snapshot
\* itemsRef.current is read and one getTotp call per item is issued.
refreshTotpCodesStart(v) == [v EXCEPT !.isRefreshing = TRUE]

\* The "Refresh Codes" action of a displayed item calls refreshTotpCodes().
ManualRefresh ==
    /\ cmd = "totp" /\ totp.mounted
    /\ totp.error = NoError /\ Len(totp.items) > 0
    /\ Len(refreshes) < MaxInFlight
    /\ totp' = refreshTotpCodesStart(totp)
    /\ refreshes' = Append(refreshes, totp.itemsRef)
    /\ lastBatch' = NoBatch
    /\ UNCHANGED <<now, store, lastRead, lastWrite, cmd, vitems, search, vlist, tick>>
    /\ UNCHANGED cliVars

\* The interval callback's test, `newRemaining === 30`.
TickRefreshes(newRemaining) == newRemaining = 30

\* The timer state after a tick at time `clock` that started `n` batches.
TimerAfterTick(t, clock, n) ==
    LET w == clock \div 30000
    IN  IF w = t.window THEN [t EXCEPT !.fired = t.fired + n]
        ELSE [t EXCEPT !.window = w, !.fired = n, !.whole = TRUE,
                       !.closed = IF w > t.window + 1 THEN 0
                                  ELSE IF t.whole THEN t.fired ELSE t.closed]

\* The interval callback runs `delay` ms after the mount or the previous tick
\* (never early, possibly late): it recomputes the remaining seconds and calls
\* refreshTotpCodes() when they are 30.  A batch takes at most the 60 s
\* timeout of its calls, which bounds the batches in flight.
Tick(delay, horizon) ==
    /\ cmd = "totp" /\ tick.active
    /\ now + delay <= StartOfTime + horizon
    /\ now' = now + delay
    /\ LET newRemaining == getTotpRemainingSeconds(now + delay)
       IN  IF TickRefreshes(newRemaining)
           THEN /\ Len(refreshes) < MaxInFlight
                /\ totp' = refreshTotpCodesStart([totp EXCEPT !.remainingSeconds = newRemaining])
                /\ refreshes' = Append(refreshes, totp.itemsRef)
                /\ tick' = TimerAfterTick(tick, now + delay, 1)
           ELSE /\ totp' = [totp EXCEPT !.remainingSeconds = newRemaining]
                /\ refreshes' = refreshes
                /\ tick' = TimerAfterTick(tick, now + delay, 0)
    /\ lastBatch' = NoBatch
    /\ UNCHANGED <<store, lastRead, lastWrite, cmd, vitems, search, vlist>>
    /\ UNCHANGED cliVars

\* The sequence s without its i-th element.
RemoveAt(s, i) == SubSeq(s, 1, i - 1) \o SubSeq(s, i + 1, Len(s))

\* The getTotp calls of the i-th refresh in flight have all settled:
\* setItems(updatedItems), itemsRef.current = updatedItems, then the finally
\* block runs setIsRefreshing(false).
RefreshDone(i) ==
    /\ cmd = "totp"
    /\ i \in 1..Len(refreshes)
    /\ \E outs \in BatchOutcomes(refreshes[i], now) :
         /\ totp' = [totp EXCEPT !.items = refreshCodes(refreshes[i], outs),
                                 !.itemsRef = refreshCodes(refreshes[i], outs),
                                 !.isRefreshing = FALSE]
         /\ lastBatch' = [done |-> TRUE, currentItems |-> refreshes[i], outs |-> outs,
                          refBefore |-> totp.itemsRef, errorBefore |-> totp.error]
    /\ refreshes' = RemoveAt(refreshes, i)
    /\ UNCHANGED <<now, store, lastRead, lastWrite, cmd, vitems, search, vlist, tick>>
    /\ UNCHANGED cliVars

RefreshSettles == \E i \in 1..MaxInFlight : RefreshDone(i)

\* A variant of the cleanup that leaves the interval running.
keepInterval(t) == t

\* The effect's cleanup: if (intervalRef.current) clearInterval(intervalRef.current).
clearInterval(t) == [t EXCEPT !.active = FALSE]

\* The view is torn down: React runs the effect's cleanup.  Calls in flight
\* still settle afterwards; nothing is rendered from them.
Unmount ==
    /\ cmd = "totp" /\ totp.mounted
    /\ totp' = [totp EXCEPT !.mounted = FALSE]
    /\ tick' = clearInterval(tick)
    /\ lastBatch' = NoBatch
    /\ UNCHANGED <<now, store, lastRead, lastWrite, cmd, vitems, search, vlist, refreshes>>
    /\ UNCHANGED cliVars

(***************************************************************************)
(* The specifications of the views.                                        *)
(***************************************************************************)
\* What earlier runs can have left in a cache slot when a command is opened:
\* nothing, or one of `lists` written a millisecond ago, or the first of them
\* written long ago.
StoredBefore(lists) ==
    {NoEntry, StringifyCached(lists[1], 0)}
        \cup {StringifyCached(lists[i], StartOfTime - 1) : i \in 1..Len(lists)}

\* One of the three commands is opened.
InitViews ==
    /\ now = StartOfTime
    /\ \E i \in StoredBefore(<<(<<ItemA, ItemB>>), (<<ItemB>>)>>),
          v \in StoredBefore(<<(<<VaultP>>)>>) :
         store = [k \in CacheKeys |-> IF k = ITEMS_CACHE_KEY THEN i ELSE v]
    /\ lastRead = NoRead
    /\ lastWrite = [k \in CacheKeys |-> NoWrite]
    /\ cmd \in {"search", "vaults", "totp"}
    /\ search = IF cmd = "search" THEN SearchMounted ELSE Closed
    /\ vlist = IF cmd = "vaults" THEN VaultListMounted ELSE Closed
    /\ vitems = Closed
    /\ totp = IF cmd = "totp" THEN TotpMounted(now) ELSE Closed
    /\ refreshes = <<>>
    /\ lastBatch = NoBatch
    /\ tick = IF cmd = "totp" THEN TimerStarted(now) ELSE NoTimer
    /\ proc = NoProcess
    /\ call = NoCall

\* The delays between two runs of the interval callback, in the model of the
\* views (a late callback: the event loop was busy or the machine asleep) and
\* in the model of the timer (on time, one millisecond late, one second late).
CoarseDelays == {30000}
FineDelays == {1000, 1001, 2000}

TickCoarse == \E d \in CoarseDelays : Tick(d, ViewHorizon)
TickFine == \E d \in FineDelays : Tick(d, TickHorizon)

NextViews ==
    \/ LoadItemsCache
    \/ LoadItemsAuth
    \/ LoadItemsFetch
    \/ LoadItemsSave
    \/ RetryLoadItems
    \/ LoadVaultsCache
    \/ LoadVaultsAuth
    \/ LoadVaultsFetch
    \/ LoadVaultsSave
    \/ RetryLoadVaults
    \/ ViewWait
    \/ LoadTotpCache
    \/ LoadTotpCachedCodes
    \/ LoadTotpAuth
    \/ LoadTotpList
    \/ LoadTotpSave
    \/ LoadTotpFreshCodes
    \/ RetryLoadTotp
    \/ ManualRefresh
    \/ TickCoarse
    \/ RefreshSettles

SpecViews == InitViews /\ [][NextViews]_vars

\* The vaults command: the vault list, and the items of a vault opened from
\* it.  The items slot is empty or holds an earlier all-vault listing.
InitVault ==
    /\ now = StartOfTime
    /\ \E i \in StoredBefore(<<AccountItems>>),
          v \in StoredBefore(<<(<<VaultP, VaultW>>)>>) :
         store = [k \in CacheKeys |-> IF k = ITEMS_CACHE_KEY THEN i ELSE v]
    /\ lastRead = NoRead
    /\ lastWrite = [k \in CacheKeys |-> NoWrite]
    /\ cmd = "vaults"
    /\ search = Closed
    /\ vlist = VaultListMounted
    /\ vitems = Closed
    /\ totp = Closed
    /\ refreshes = <<>>
    /\ lastBatch = NoBatch
    /\ tick = NoTimer
    /\ proc = NoProcess
    /\ call = NoCall

NextVault ==
    \/ LoadVaultsCache
    \/ LoadVaultsAuth
    \/ LoadVaultsFetch
    \/ LoadVaultsSave
    \/ RetryLoadVaults
    \/ ViewWait
    \/ OpenVault
    \/ LoadVaultItemsCache
    \/ LoadVaultItemsFetch
    \/ LoadVaultItemsSave
    \/ CloseVault

SpecVault == InitVault /\ [][NextVault]_vars

\* The load flows of all views under fair scheduling: every call a flow
\* awaits settles (a CLI invocation within its 60 s timeout, a storage access
\* or a toast in finite time), so the step that resumes the flow is taken
\* once it stays enabled.  When the user retries, refreshes, opens or leaves a
\* vault, and when the timer ticks, is not constrained; the clock moves with
\* the ticks only, since no flow waits for an instant, and the refresh batches
\* are those the timer starts.
NextLoads ==
    \/ LoadItemsCache
    \/ LoadItemsAuth
    \/ LoadItemsFetch
    \/ LoadItemsSave
    \/ RetryLoadItems
    \/ LoadVaultsCache
    \/ LoadVaultsAuth
    \/ LoadVaultsFetch
    \/ LoadVaultsSave
    \/ RetryLoadVaults
    \/ LoadTotpCache
    \/ LoadTotpCachedCodes
    \/ LoadTotpAuth
    \/ LoadTotpList
    \/ LoadTotpSave
    \/ LoadTotpFreshCodes
    \/ RetryLoadTotp
    \/ TickCoarse
    \/ RefreshSettles
    \/ OpenVault
    \/ LoadVaultItemsCache
    \/ LoadVaultItemsFetch
    \/ LoadVaultItemsSave
    \/ CloseVault

CallsSettle ==
    /\ WF_vars(LoadItemsCache) /\ WF_vars(LoadItemsAuth)
    /\ WF_vars(LoadItemsFetch) /\ WF_vars(LoadItemsSave)
    /\ WF_vars(LoadVaultsCache) /\ WF_vars(LoadVaultsAuth)
    /\ WF_vars(LoadVaultsFetch) /\ WF_vars(LoadVaultsSave)
    /\ WF_vars(LoadVaultItemsCache) /\ WF_vars(LoadVaultItemsFetch)
    /\ WF_vars(LoadVaultItemsSave)
    /\ WF_vars(LoadTotpCache) /\ WF_vars(LoadTotpCachedCodes)
    /\ WF_vars(LoadTotpAuth) /\ WF_vars(LoadTotpList)
    /\ WF_vars(LoadTotpSave) /\ WF_vars(LoadTotpFreshCodes)
    /\ WF_vars(RefreshSettles)

SpecLoads == InitViews /\ [][NextLoads]_vars /\ CallsSettle

\* The TOTP view with its timer alone: the view is opened at the start of a
\* window or just before the last second of one.
MountInstants == {StartOfTime, StartOfTime + 28999}

InitTick ==
    /\ now \in MountInstants
    /\ store = [k \in CacheKeys |-> NoEntry]
    /\ lastRead = NoRead
    /\ lastWrite = [k \in CacheKeys |-> NoWrite]
    /\ cmd = "totp"
    /\ search = Closed
    /\ vlist = Closed
    /\ vitems = Closed
    /\ totp = TotpMounted(now)
    /\ refreshes = <<>>
    /\ lastBatch = NoBatch
    /\ tick = TimerStarted(now)
    /\ proc = NoProcess
    /\ call = NoCall

NextTick ==
    \/ TickFine
    \/ RefreshSettles
    \/ Unmount

SpecTick == InitTick /\ [][NextTick]_vars

(***************************************************************************)
(* lib/pass-cli.ts, the process runner.                                    *)
(*   A text (stderr, an exception message, the executable's path) is a     *)
(*   sequence of words; " " and "\n" are words of white space.             *)
(***************************************************************************)
Whitespace == {" ", "\n"}

\* String.prototype.toLowerCase, word by word.
LowerWord(w) ==
    CASE w = "Not" -> "not"
      [] w = "NOT" -> "not"
      [] w = "Authenticated" -> "authenticated"
      [] w = "Error" -> "error"
      [] w = "Connection" -> "connection"
      [] w = "DNS" -> "dns"
      [] w = "Network" -> "network"
      [] w = "Command" -> "command"
      [] w = "ENOENT" -> "enoent"
      [] w = "EACCES" -> "eacces"
      [] w = ".EXE" -> ".exe"
      [] w = "Owner" -> "owner"
      [] w = "Hidden" -> "hidden"
      [] OTHER -> w

toLowerCase(text) == [i \in 1..Len(text) |-> LowerWord(text[i])]

\* String.prototype.trim
RECURSIVE trimStart(_)
trimStart(text) ==
    IF text # <<>> /\ Head(text) \in Whitespace THEN trimStart(Tail(text)) ELSE text

RECURSIVE trimEnd(_)
trimEnd(text) ==
    IF text # <<>> /\ text[Len(text)] \in Whitespace
    THEN trimEnd(SubSeq(text, 1, Len(text) - 1))
    ELSE text

trim(text) == trimEnd(trimStart(text))

\* String.prototype.includes
includes(text, phrase) ==
    \E i \in 0..(Len(text) - Len(phrase)) :
        \A j \in 1..Len(phrase) : text[i + j] = phrase[j]

\* String.prototype.endsWith
endsWith(text, suffix) ==
    /\ Len(suffix) <= Len(text)
    /\ SubSeq(text, Len(text) - Len(suffix) + 1, Len(text)) = suffix

\* [a, b].map((s) => s.trim()).filter((s) => s.length > 0).join("\n")
joinNonEmpty(a, b) ==
    IF trim(a) = <<>> THEN trim(b)
    ELSE IF trim(b) = <<>> THEN trim(a)
    ELSE trim(a) \o <<"\n">> \o trim(b)

\* The phrases of classifyCliError.
KeyringPhrases ==
    {<<"cannot", "get", "the", "encryption", "key">>,
     <<"error", "creating", "client", "features">>}
AuthPhrases ==
    {<<"requires", "an", "authenticated", "client">>, <<"not", "authenticated">>,
     <<"login", "required">>, <<"please", "login">>, <<"not", "logged", "in">>}
NetworkPhrases ==
    {<<"network">>, <<"timeout">>, <<"timed", "out">>, <<"connection">>, <<"dns">>}

includesAny(text, phrases) == \E p \in phrases : includes(text, p)

\* A variant of classifyCliError that tests the network phrases before the
\* authentication phrases.
classifyCliErrorNetworkFirst(text) ==
    LET normalized == toLowerCase(text)
    IN  IF includesAny(normalized, KeyringPhrases) THEN "keyring_error"
        ELSE IF includesAny(normalized, NetworkPhrases) THEN "network_error"
        ELSE IF includesAny(normalized, AuthPhrases) THEN "not_authenticated"
        ELSE "unknown"

\* classifyCliError
classifyCliError(text) ==
    LET normalized == toLowerCase(text)
    IN  IF includesAny(normalized, KeyringPhrases) THEN "keyring_error"
        ELSE IF includesAny(normalized, AuthPhrases) THEN "not_authenticated"
        ELSE IF includesAny(normalized, NetworkPhrases) THEN "network_error"
        ELSE "unknown"

\* new PassCliError(message, type), as the outcome of a call that rejects.
PassCliError(message, type) == [type |-> type, ok |-> FALSE, message |-> message]

\* The values of an error's properties.
JsString(v) == [t |-> "string", v |-> v]
JsNumber(v) == [t |-> "number", v |-> v]
JsNull == [t |-> "null"]
JsUndefined == [t |-> "undefined"]

\* The error execFile rejects with.  `killed` is FALSE for false and for an
\* absent property alike (both are falsy).
ExecError(killed, signal, code, errno, stderr, message) ==
    [killed |-> killed, signal |-> signal, code |-> code, errno |-> errno,
     stderr |-> stderr, message |-> message]

\* execErr?.code === "ENOENT" || execErr?.errno === -2
isEnoent(err) ==
    \/ (err.code.t = "string" /\ err.code.v = "ENOENT")
    \/ (err.errno.t = "number" /\ err.errno.v = -2)

\* runCli, lines 184-187.
combinedText(err) ==
    joinNonEmpty(IF err.stderr.t = "string" THEN err.stderr.v ELSE <<>>, err.message)

\* A variant of runCli's catch block that classifies the text before it looks
\* at the ENOENT condition.
runCliCatchTextFirst(err, cliPath) ==
    IF err.killed /\ err.signal.t = "string"
    THEN PassCliError(<<"pass-cli timed out. Please try again.">>, "timeout")
    ELSE LET combined == combinedText(err)
             type == classifyCliError(combined)
         IN  IF type = "keyring_error"
             THEN PassCliError(<<"pass-cli could not access secure key storage.">>, type)
             ELSE IF type = "not_authenticated"
             THEN PassCliError(<<"Not authenticated. Run pass-cli login to authenticate.">>, type)
             ELSE IF type = "network_error"
             THEN PassCliError(<<"Network error. Check your connection and try again.">>, type)
             ELSE IF isEnoent(err)
             THEN PassCliError(<<"pass-cli not found at '">> \o cliPath \o <<"'.">>, "not_installed")
             ELSE IF combined # <<>> THEN PassCliError(combined, "unknown")
             ELSE PassCliError(<<"An unknown error occurred while running pass-cli.">>, "unknown")

\* runCli, the catch block (lines 167-208).  The texts of the model are
\* shorter than 600 characters, so truncateMiddle returns them as they are.
runCliCatch(err, cliPath) ==
    IF err.killed /\ err.signal.t = "string"
    THEN PassCliError(<<"pass-cli timed out. Please try again.">>, "timeout")
    ELSE IF isEnoent(err)
    THEN PassCliError(<<"pass-cli not found at '">> \o cliPath \o <<"'.">>, "not_installed")
    ELSE LET combined == combinedText(err)
             type == classifyCliError(combined)
         IN  IF type = "keyring_error"
             THEN PassCliError(<<"pass-cli could not access secure key storage.">>, type)
             ELSE IF type = "not_authenticated"
             THEN PassCliError(<<"Not authenticated. Run pass-cli login to authenticate.">>, type)
             ELSE IF type = "network_error"
             THEN PassCliError(<<"Network error. Check your connection and try again.">>, type)
             ELSE IF combined # <<>> THEN PassCliError(combined, "unknown")
             ELSE PassCliError(<<"An unknown error occurred while running pass-cli.">>, "unknown")

\* What the child process can have written to stderr.
StderrTexts ==
    {<<>>,
     <<"Not", "authenticated">>,
     <<"connection", "refused">>,
     <<"Error", "creating", "client", "features">>,
     <<"cannot", "get", "the", "encryption", "key", ":", "not", "authenticated">>,
     <<"please", "login", ":", "Connection", "refused">>,
     <<"DNS", "lookup", "failed">>,
     <<" ", "not", "logged", "in", "\n">>,
     <<"not", "\n", "authenticated">>,
     <<"permission", "denied">>}

\* The message of the error Node builds for a failed command: the command
\* line followed by stderr.
CommandFailed(args, stderr) == <<"Command", "failed", ":", "pass-cli">> \o args \o <<"\n">> \o stderr

\* The ways execFile can reject: the process exits with a code, it is killed
\* at the 60 s timeout, it dies from a signal sent by something else, the
\* spawn fails (ENOENT with either of its two marks, with or without captured
\* stderr, or EACCES), or the output exceeds maxBuffer.
ExecErrors(args) ==
    {ExecError(FALSE, JsNull, JsNumber(1), JsUndefined, JsString(e), CommandFailed(args, e)) :
        e \in StderrTexts}
    \cup {ExecError(TRUE, JsString("SIGTERM"), JsNull, JsUndefined, JsString(e), CommandFailed(args, e)) :
        e \in StderrTexts}
    \cup {ExecError(FALSE, JsString("SIGKILL"), JsNull, JsUndefined, JsString(<<>>), CommandFailed(args, <<>>)),
          ExecError(FALSE, JsUndefined, JsString("ENOENT"), JsNumber(-2), JsString(<<>>),
                    <<"spawn", "pass-cli", "ENOENT">>),
          ExecError(FALSE, JsUndefined, JsUndefined, JsNumber(-2), JsUndefined,
                    <<"spawn", "pass-cli", "ENOENT">>),
          ExecError(FALSE, JsUndefined, JsString("ENOENT"), JsUndefined,
                    JsString(<<"Not", "authenticated">>), <<"spawn", "ENOENT", ":", "connection", "refused">>),
          ExecError(FALSE, JsUndefined, JsString("EACCES"), JsNumber(-13), JsString(<<>>),
                    <<"spawn", "pass-cli", "EACCES">>),
          ExecError(FALSE, JsUndefined, JsString("ERR_CHILD_PROCESS_STDIO_MAXBUFFER"), JsUndefined,
                    JsString(<<>>), <<"stdout", "maxBuffer", "length", "exceeded">>)}

\* What the child process can have written to stdout, by what the text
\* denotes: nothing, white space only, a text that is no JSON, a JSON text.
BlankText == [kind |-> "blank"]
Stdouts == {EmptyText, BlankText, NotJson, JsonText(JsonNull)}

\* (stdout ?? "").trim()
trimStdout(text) == IF text.kind = "blank" THEN EmptyText ELSE text

\* The outcomes of one execFileAsync call.
ExecOutcomes(args) == {Ok(t) : t \in Stdouts} \cup {[ok |-> FALSE, err |-> e] : e \in ExecErrors(args)}

\* The platforms and the configured executable paths.
Platforms == {"win32", "darwin", "linux"}
CliPaths == {<<"pass-cli">>, <<"pass-cli", ".exe">>, <<"C:\\tools\\pass-cli", ".EXE">>}

\* A variant of the retry test that retries on every platform.
shouldRetryAnyPlatform(platform, err, cliPath) ==
    isEnoent(err) /\ ~endsWith(toLowerCase(cliPath), <<".exe">>)

\* execPassCli, line 152.
shouldRetry(platform, err, cliPath) ==
    platform = "win32" /\ isEnoent(err) /\ ~endsWith(toLowerCase(cliPath), <<".exe">>)

\* No error caught yet.
NoExecError == [caught |-> FALSE]

\* runCli(args) has called execPassCli, which awaits its first execFileAsync.
RunCliStarted(platform, cliPath, args) ==
    [pc |-> "spawn1", platform |-> platform, cliPath |-> cliPath, args |-> args,
     spawns |-> <<cliPath>>, retriedAfter |-> NoExecError, error |-> NoExecError,
     result |-> NoExecError]

\* The first execFileAsync settles: runCli returns the trimmed stdout, or
\* execPassCli spawns `${cliPath}.exe`, or the error reaches runCli's catch.
ExecFirst ==
    /\ proc.pc = "spawn1"
    /\ \E o \in ExecOutcomes(proc.args) :
         proc' = IF o.ok
                 THEN [proc EXCEPT !.pc = "done", !.result = Ok(trimStdout(o.v))]
                 ELSE IF shouldRetry(proc.platform, o.err, proc.cliPath)
                 THEN [proc EXCEPT !.pc = "spawn2",
                                   !.spawns = Append(@, proc.cliPath \o <<".exe">>),
                                   !.retriedAfter = [caught |-> TRUE, err |-> o.err]]
                 ELSE [proc EXCEPT !.pc = "done",
                                   !.error = [caught |-> TRUE, err |-> o.err],
                                   !.result = runCliCatch(o.err, proc.cliPath)]
    /\ UNCHANGED <<cacheVars, viewVars, call>>

\* The second execFileAsync settles: its error is not caught in execPassCli.
ExecRetry ==
    /\ proc.pc = "spawn2"
    /\ \E o \in ExecOutcomes(proc.args) :
         proc' = IF o.ok
                 THEN [proc EXCEPT !.pc = "done", !.result = Ok(trimStdout(o.v))]
                 ELSE [proc EXCEPT !.pc = "done",
                                   !.error = [caught |-> TRUE, err |-> o.err],
                                   !.result = runCliCatch(o.err, proc.cliPath)]
    /\ UNCHANGED <<cacheVars, viewVars, call>>

\* A variant of checkAuth that maps every failure to false.
checkAuthSwallowAll(outcome) == IF outcome.ok THEN Ok(TRUE) ELSE Ok(FALSE)

\* checkAuth, lines 396-404, on the outcome of runCli(["test"]).
checkAuth(outcome) ==
    IF outcome.ok THEN Ok(TRUE)
    ELSE IF outcome.type = "not_authenticated" THEN Ok(FALSE)
    ELSE outcome

\* checkAuth() has called runCli(["test"]).
CheckAuthStarted == [op |-> "checkAuth", pc |-> "run"]

\* runCli has settled; checkAuth returns or throws.
CheckAuthSettles ==
    /\ call.op = "checkAuth" /\ call.pc = "run"
    /\ proc.pc = "done"
    /\ call' = [op |-> "checkAuth", pc |-> "done", result |-> checkAuth(proc.result)]
    /\ UNCHANGED <<cacheVars, viewVars, proc>>

\* The views are not involved in the specifications of the CLI layer.
NoView ==
    /\ now = StartOfTime
    /\ store = [k \in CacheKeys |-> NoEntry]
    /\ lastRead = NoRead
    /\ lastWrite = [k \in CacheKeys |-> NoWrite]
    /\ cmd = "none"
    /\ search = Closed
    /\ vlist = Closed
    /\ vitems = Closed
    /\ totp = Closed
    /\ refreshes = <<>>
    /\ lastBatch = NoBatch
    /\ tick = NoTimer

\* checkAuth() is called, on any platform and with any configured path.
InitCli ==
    /\ NoView
    /\ \E p \in Platforms, c \in CliPaths : proc = RunCliStarted(p, c, <<"test">>)
    /\ call = CheckAuthStarted

NextCli ==
    \/ ExecFirst
    \/ ExecRetry
    \/ CheckAuthSettles

SpecCli == InitCli /\ [][NextCli]_vars

(***************************************************************************)
(* The output normalizer of lib/pass-cli.ts.  A parsed JSON value is a     *)
(* tagged record: a string holds its text as a sequence of words, an       *)
(* object holds a record of its properties, an array a sequence of values. *)
(* The code never enumerates the keys of an object and only reads          *)
(* properties, so a property that is absent and one that holds undefined   *)
(* are the same to it.                                                     *)
(***************************************************************************)
JsObject(fields) == [t |-> "object", v |-> fields]
JsArray(elems) == [t |-> "array", v |-> elems]

\* typeof value === "object" && value !== null: true of arrays as well.
isRecord(value) == value.t \in {"object", "array"}

\* Array.isArray(value)
isArray(value) == value.t = "array"

\* value[key], for a key that is not an index.
Prop(value, key) ==
    IF value.t = "object" /\ key \in DOMAIN value.v THEN value.v[key] ELSE JsUndefined

\* a ?? b
nullish(a, b) == IF a.t \in {"null", "undefined"} THEN b ELSE a

\* Prop(value, keys[1]) ?? Prop(value, keys[2]) ?? ...
RECURSIVE firstDefined(_, _)
firstDefined(value, propKeys) ==
    IF Len(propKeys) = 1 THEN Prop(value, propKeys[1])
    ELSE nullish(Prop(value, propKeys[1]), firstDefined(value, Tail(propKeys)))

\* trimOrUndefined
trimOrUndefined(value) ==
    IF value.t # "string" THEN JsUndefined
    ELSE LET trimmed == trim(value.v)
         IN  IF Len(trimmed) > 0 THEN JsString(trimmed) ELSE JsUndefined

\* !value, for a value that is a string or undefined.
isFalsy(value) == value.t = "undefined" \/ (value.t = "string" /\ value.v = <<>>)

\* normalizeVaultRole
VaultRoles == {<<"owner">>, <<"manager">>, <<"editor">>, <<"viewer">>}
normalizeVaultRole(value) ==
    LET raw == trimOrUndefined(value)
    IN  IF raw.t = "string" /\ toLowerCase(raw.v) \in VaultRoles
        THEN JsString(toLowerCase(raw.v))
        ELSE JsString(<<"viewer">>)

\* Number(text) for the texts of the model: white space denotes 0, the
\* numeral "7" its number, any other text NaN.
stringToNumber(words) ==
    IF trim(words) = <<>> THEN Num(0)
    ELSE IF trim(words) = <<"7">> THEN Num(7)
    ELSE NaN

\* normalizeVault, lines 226-227 and 241: the item count as a finite number,
\* for a count that is a number, a text, null, absent or a plain object.
itemCountOf(raw) ==
    LET itemCountValue == firstDefined(raw, <<"itemCount", "item_count", "items_count", "itemsCount">>)
        itemCount == CASE itemCountValue.t = "number" -> Num(itemCountValue.v)
                       [] itemCountValue.t \in {"null", "undefined"} -> Num(0)
                       [] itemCountValue.t = "string" -> stringToNumber(itemCountValue.v)
                       [] OTHER -> NaN
    IN  IF itemCount.nan THEN 0 ELSE itemCount.v

InvalidVault == PassCliError(<<"Unexpected vault data from pass-cli.">>, "invalid_output")
InvalidItem == PassCliError(<<"Unexpected item data from pass-cli.">>, "invalid_output")

\* A variant of normalizeVault that does not require the name.
normalizeVaultShareIdOnly(raw) ==
    IF ~isRecord(raw) THEN InvalidVault
    ELSE LET shareId == trimOrUndefined(firstDefined(raw, <<"share_id", "shareId", "shareID", "id">>))
             name == trimOrUndefined(Prop(raw, "name"))
         IN  IF isFalsy(shareId) THEN InvalidVault
             ELSE Ok([shareId |-> shareId, name |-> name, itemCount |-> itemCountOf(raw),
                      role |-> normalizeVaultRole(Prop(raw, "role"))])

\* normalizeVault
normalizeVault(raw) ==
    IF ~isRecord(raw) THEN InvalidVault
    ELSE LET shareId == trimOrUndefined(firstDefined(raw, <<"share_id", "shareId", "shareID", "id">>))
             name == trimOrUndefined(Prop(raw, "name"))
         IN  IF isFalsy(shareId) \/ isFalsy(name) THEN InvalidVault
             ELSE Ok([shareId |-> shareId, name |-> name, itemCount |-> itemCountOf(raw),
                      role |-> normalizeVaultRole(Prop(raw, "role"))])

\* The result of getItemTypeFromContent.
TypeOf(type, loginData) == [type |-> type, loginData |-> loginData]

\* A variant of getItemTypeFromContent whose last resort is the login type.
getItemTypeFromContentDefaultLogin(contentData) ==
    IF ~isRecord(contentData) THEN TypeOf("note", JsUndefined)
    ELSE IF isRecord(Prop(contentData, "Login")) THEN TypeOf("login", Prop(contentData, "Login"))
    ELSE IF isRecord(Prop(contentData, "Note")) \/ Prop(contentData, "Note").t # "undefined"
    THEN TypeOf("note", JsUndefined)
    ELSE IF isRecord(Prop(contentData, "CreditCard")) \/ isRecord(Prop(contentData, "credit_card"))
    THEN TypeOf("credit_card", JsUndefined)
    ELSE IF isRecord(Prop(contentData, "Identity")) THEN TypeOf("identity", JsUndefined)
    ELSE IF isRecord(Prop(contentData, "Alias")) THEN TypeOf("alias", JsUndefined)
    ELSE IF isRecord(Prop(contentData, "SshKey")) \/ isRecord(Prop(contentData, "ssh_key"))
    THEN TypeOf("ssh_key", JsUndefined)
    ELSE IF isRecord(Prop(contentData, "Wifi")) THEN TypeOf("wifi", JsUndefined)
    ELSE TypeOf("login", JsUndefined)

\* getItemTypeFromContent
getItemTypeFromContent(contentData) ==
    IF ~isRecord(contentData) THEN TypeOf("note", JsUndefined)
    ELSE IF isRecord(Prop(contentData, "Login")) THEN TypeOf("login", Prop(contentData, "Login"))
    ELSE IF isRecord(Prop(contentData, "Note")) \/ Prop(contentData, "Note").t # "undefined"
    THEN TypeOf("note", JsUndefined)
    ELSE IF isRecord(Prop(contentData, "CreditCard")) \/ isRecord(Prop(contentData, "credit_card"))
    THEN TypeOf("credit_card", JsUndefined)
    ELSE IF isRecord(Prop(contentData, "Identity")) THEN TypeOf("identity", JsUndefined)
    ELSE IF isRecord(Prop(contentData, "Alias")) THEN TypeOf("alias", JsUndefined)
    ELSE IF isRecord(Prop(contentData, "SshKey")) \/ isRecord(Prop(contentData, "ssh_key"))
    THEN TypeOf("ssh_key", JsUndefined)
    ELSE IF isRecord(Prop(contentData, "Wifi")) THEN TypeOf("wifi", JsUndefined)
    ELSE TypeOf("note", JsUndefined)

\* normalizeItem, lines 286-290: the content object the type is read from.
innerContentOf(raw) ==
    LET outerContent == IF isRecord(Prop(raw, "content")) THEN Prop(raw, "content") ELSE raw
    IN  IF isRecord(Prop(outerContent, "content")) THEN Prop(outerContent, "content") ELSE JsUndefined

\* A variant of the TOTP test of normalizeItem that also reads the TOTP URI
\* of the item itself.
hasTotpOfAnywhere(raw, loginData) ==
    LET totpUri == IF loginData.t # "undefined"
                   THEN trimOrUndefined(firstDefined(loginData, <<"totp_uri", "totpUri">>))
                   ELSE trimOrUndefined(firstDefined(raw, <<"totp_uri", "totpUri">>))
    IN  totpUri.t # "undefined" /\ Len(totpUri.v) > 0

\* normalizeItem, lines 295-296.
hasTotpOf(raw, loginData) ==
    LET totpUri == IF loginData.t # "undefined"
                   THEN trimOrUndefined(firstDefined(loginData, <<"totp_uri", "totpUri">>))
                   ELSE JsUndefined
    IN  totpUri.t # "undefined" /\ Len(totpUri.v) > 0

\* normalizeItem; the vault name override is a string or undefined.
normalizeItem(raw, vaultNameOverride) ==
    IF ~isRecord(raw) THEN InvalidItem
    ELSE LET shareId == trimOrUndefined(firstDefined(raw,
                            <<"share_id", "shareId", "shareID", "vaultShareId", "vault_share_id">>))
             itemId == trimOrUndefined(firstDefined(raw, <<"id", "itemId", "item_id", "itemID">>))
             outerContent == IF isRecord(Prop(raw, "content")) THEN Prop(raw, "content") ELSE raw
             title == trimOrUndefined(nullish(Prop(outerContent, "title"),
                                              firstDefined(raw, <<"title", "name">>)))
             detected == getItemTypeFromContent(innerContentOf(raw))
             loginData == detected.loginData
             username == IF loginData.t # "undefined"
                         THEN trimOrUndefined(Prop(loginData, "username"))
                         ELSE trimOrUndefined(Prop(raw, "username"))
             email == IF loginData.t # "undefined"
                      THEN trimOrUndefined(Prop(loginData, "email"))
                      ELSE trimOrUndefined(Prop(raw, "email"))
             vaultName == nullish(vaultNameOverride,
                                  nullish(trimOrUndefined(firstDefined(raw, <<"vaultName", "vault_name">>)),
                                          JsString(<<"Unknown Vault">>)))
         IN  IF isFalsy(shareId) \/ isFalsy(itemId) \/ isFalsy(title) THEN InvalidItem
             ELSE Ok([shareId |-> shareId, itemId |-> itemId, title |-> title,
                      type |-> detected.type, vaultName |-> vaultName,
                      username |-> username, email |-> email,
                      hasTotp |-> hasTotpOf(raw, loginData)])

\* parseJson: the empty text and a text that is no JSON make JSON.parse throw.
parseJson(text, context) ==
    IF text.kind = "json" THEN Ok(text.value)
    ELSE PassCliError(<<"Unexpected">> \o context \o <<"output from pass-cli.">>, "invalid_output")

\* Array.prototype.map with a function that can throw: the outcome of the
\* first call that throws, otherwise the array of the values.
mapOutcomes(outcomes) ==
    IF \E i \in 1..Len(outcomes) : ~outcomes[i].ok
    THEN outcomes[CHOOSE i \in 1..Len(outcomes) :
                     /\ ~outcomes[i].ok
                     /\ \A j \in 1..(i - 1) : outcomes[j].ok]
    ELSE Ok([i \in 1..Len(outcomes) |-> outcomes[i].v])

\* listVaults, lines 413-421, on the outcome of runCli.
listVaults(outcome) ==
    IF ~outcome.ok THEN outcome
    ELSE LET data == parseJson(outcome.v, <<"vault", "list">>)
         IN  IF ~data.ok THEN data
             ELSE LET vaultsRaw == IF isArray(data.v) THEN data.v
                                   ELSE IF isRecord(data.v) THEN Prop(data.v, "vaults")
                                   ELSE JsUndefined
                  IN  IF ~isArray(vaultsRaw)
                      THEN PassCliError(<<"Unexpected vault list output from pass-cli.">>, "invalid_output")
                      ELSE mapOutcomes([i \in 1..Len(vaultsRaw.v) |-> normalizeVault(vaultsRaw.v[i])])

\* listItemsFromVault, lines 436-440: the callback of the filter.
keepItem(item) ==
    IF ~isRecord(item) THEN FALSE
    ELSE LET state == trimOrUndefined(Prop(item, "state"))
         IN  ~(state.t = "string" /\ state.v = <<"Trashed">>)

\* listItemsFromVault, lines 427-441, on the outcome of runCli.
listItemsFromVault(outcome, vaultName) ==
    IF ~outcome.ok THEN outcome
    ELSE LET data == parseJson(outcome.v, <<"item", "list">>)
         IN  IF ~data.ok THEN data
             ELSE LET itemsRaw == IF isArray(data.v) THEN data.v
                                  ELSE IF isRecord(data.v) THEN Prop(data.v, "items")
                                  ELSE JsUndefined
                  IN  IF ~isArray(itemsRaw)
                      THEN PassCliError(<<"Unexpected item list output from pass-cli.">>, "invalid_output")
                      ELSE LET kept == SelectSeq(itemsRaw.v, keepItem)
                           IN  mapOutcomes([i \in 1..Len(kept) |-> normalizeItem(kept[i], vaultName)])

\* A variant of the loop body of listItems that forgets the items gathered
\* so far when a vault's listing fails.
pushItemsOrReset(allItems, outcome) == IF outcome.ok THEN allItems \o outcome.v ELSE <<>>

\* listItems, lines 464-469: allItems after one turn of the loop.
pushItems(allItems, outcome) == IF outcome.ok THEN allItems \o outcome.v ELSE allItems

\* listItems, lines 455-456: the name of the vault with the share id.
vaultNameFor(vaults, shareId) ==
    IF \E i \in 1..Len(vaults) : vaults[i].shareId = shareId
    THEN vaults[CHOOSE i \in 1..Len(vaults) :
                   /\ vaults[i].shareId = shareId
                   /\ \A j \in 1..(i - 1) : vaults[j].shareId # shareId].name
    ELSE JsString(<<"Unknown Vault">>)

(***************************************************************************)
(* The payloads of the command-line tool.                                  *)
(***************************************************************************)
\* One vault of `vault list`, by the properties the payloads of the model use.
RawVault(share_id, shareId, id, name, itemCount, item_count, role) ==
    JsObject([id |-> id, shareId |-> shareId, name |-> name, itemCount |-> itemCount,
              role |-> role, share_id |-> share_id, item_count |-> item_count])

\* The Login object of an item.
RawLogin(username, totp_uri, totpUri) ==
    JsObject([username |-> username, totpUri |-> totpUri, totp_uri |-> totp_uri])

\* The inner content object of an item: the type-discriminator keys and a
\* key the code does not know.
RawInner(Login, Note, CreditCard, Identity, Wifi, Passkey) ==
    JsObject([Login |-> Login, Note |-> Note, CreditCard |-> CreditCard,
              Identity |-> Identity, Wifi |-> Wifi, Passkey |-> Passkey])

\* The outer content object of an item.
RawContent(title, content) == JsObject([title |-> title, content |-> content])

\* One item of `item list`.
RawItem(share_id, shareId, vault_share_id, id, item_id, title, name, content, state, totp_uri) ==
    JsObject([id |-> id, shareId |-> shareId, title |-> title, name |-> name, state |-> state,
              share_id |-> share_id, totp_uri |-> totp_uri, content |-> content,
              vault_share_id |-> vault_share_id, item_id |-> item_id])

\* The texts of the payloads.
TextS1 == JsString(<<"s1">>)
TextS2 == JsString(<<"s2">>)
TextI1 == JsString(<<"i1">>)
TextI2 == JsString(<<"i2">>)
TextMail == JsString(<<"Mail">>)
TextMemo == JsString(<<"Memo">>)
TextUri == JsString(<<"otpauth://totp/Mail">>)
EmptyString == JsString(<<>>)
BlankString == JsString(<<" ", "\n">>)
Padded(text) == JsString(<<" ">> \o text.v \o <<"\n">>)

\* The ways a payload spells the share id of a vault: share_id, shareId, id.
VaultShareIds ==
    {<<TextS1, JsUndefined, JsUndefined>>,
     <<JsUndefined, TextS1, JsUndefined>>,
     <<JsUndefined, JsUndefined, TextS1>>,
     <<JsNull, JsUndefined, Padded(TextS1)>>,
     <<JsUndefined, JsUndefined, JsUndefined>>,
     <<EmptyString, TextS1, JsUndefined>>,
     <<JsNumber(5), TextS1, JsUndefined>>,
     <<BlankString, JsUndefined, JsUndefined>>,
     <<JsNull, JsNull, JsNull>>}

VaultNames == {JsString(<<"Personal">>), Padded(JsString(<<"Work">>)), JsUndefined, BlankString, JsNumber(3)}

\* itemCount, item_count
VaultCounts ==
    {<<JsUndefined, JsUndefined>>, <<JsNumber(2), JsUndefined>>,
     <<JsNull, JsString(<<"7">>)>>, <<JsString(<<"many">>), JsNumber(2)>>}

VaultRoleTexts == {JsUndefined, JsString(<<"Owner">>), JsString(<<"admin">>)}

\* The values normalizeVault is applied to.
VaultPayloads ==
    {RawVault(s[1], s[2], s[3], n, c[1], c[2], r) :
        s \in VaultShareIds, n \in VaultNames, c \in VaultCounts, r \in VaultRoleTexts}
    \cup {JsNull, TextS1, JsNumber(5), JsArray(<<>>)}

\* The ways a payload spells the identity of an item: share_id, shareId,
\* vault_share_id, id, item_id.
ItemIds ==
    {<<TextS1, JsUndefined, JsUndefined, TextI1, JsUndefined>>,
     <<JsUndefined, TextS1, JsUndefined, JsUndefined, TextI1>>,
     <<JsNull, JsUndefined, Padded(TextS1), JsNull, Padded(TextI1)>>,
     <<JsUndefined, JsUndefined, JsUndefined, TextI1, JsUndefined>>,
     <<EmptyString, TextS1, JsUndefined, TextI1, JsUndefined>>,
     <<BlankString, JsUndefined, JsUndefined, TextI1, JsUndefined>>,
     <<TextS1, JsUndefined, JsUndefined, JsUndefined, JsUndefined>>,
     <<TextS1, JsUndefined, JsUndefined, JsNumber(5), TextI1>>,
     <<TextS1, JsUndefined, JsUndefined, BlankString, JsUndefined>>}

\* Where a payload holds the title: content.title, title, name.
ItemTitles ==
    {<<TextMail, JsUndefined, JsUndefined>>,
     <<JsUndefined, TextMail, JsUndefined>>,
     <<JsNull, JsUndefined, Padded(TextMail)>>,
     <<JsUndefined, JsUndefined, JsUndefined>>,
     <<BlankString, TextMail, JsUndefined>>,
     <<JsNumber(5), TextMail, JsUndefined>>}

\* The Login objects: the TOTP URI absent, present under either spelling,
\* padded, blank, empty with the other spelling filled, or not a string.
Logins ==
    {RawLogin(JsString(<<"ann">>), JsUndefined, JsUndefined),
     RawLogin(JsString(<<"ann">>), TextUri, JsUndefined),
     RawLogin(JsUndefined, JsUndefined, TextUri),
     RawLogin(JsUndefined, JsNull, Padded(TextUri)),
     RawLogin(JsUndefined, BlankString, JsUndefined),
     RawLogin(JsUndefined, EmptyString, TextUri),
     RawLogin(JsUndefined, JsNumber(5), TextUri),
     JsArray(<<TextUri>>)}

\* The inner content objects.
InnerContents ==
    {RawInner(l, JsUndefined, JsUndefined, JsUndefined, JsUndefined, JsUndefined) : l \in Logins}
    \cup {RawInner(JsUndefined, JsUndefined, JsUndefined, JsUndefined, JsUndefined, JsUndefined),
          RawInner(JsUndefined, JsUndefined, JsUndefined, JsUndefined, JsUndefined,
                   JsObject([totp_uri |-> TextUri])),
          RawInner(JsNull, JsUndefined, JsObject([number |-> JsString(<<"4111">>)]),
                   JsUndefined, JsUndefined, JsUndefined),
          RawInner(TextUri, JsUndefined, JsUndefined, JsUndefined, JsUndefined, JsUndefined),
          RawInner(JsUndefined, JsString(<<"text">>), JsUndefined, JsObject([name |-> TextMemo]),
                   JsUndefined, JsUndefined),
          RawInner(JsUndefined, JsNull, JsUndefined, JsUndefined, JsObject([ssid |-> TextMemo]),
                   JsUndefined),
          RawInner(JsUndefined, JsUndefined, JsString(<<"4111">>), JsUndefined, JsUndefined,
                   JsUndefined),
          RawInner(JsUndefined, JsUndefined, JsUndefined, JsUndefined, JsObject([ssid |-> TextMemo]),
                   JsUndefined),
          JsUndefined, JsNull, TextUri, JsArray(<<>>)}

\* The values of an item's top-level totp_uri.
TopLevelTotp == {JsUndefined, TextUri}

\* The values normalizeItem is applied to.  An item without a content object
\* holds its title itself.
ItemPayloads ==
    {RawItem(d[1], d[2], d[3], d[4], d[5], h[2], h[3], RawContent(h[1], c), JsUndefined, u) :
        d \in ItemIds, h \in ItemTitles, c \in InnerContents, u \in TopLevelTotp}
    \cup {RawItem(d[1], d[2], d[3], d[4], d[5], h[2], h[3], c, JsUndefined, u) :
        d \in ItemIds, h \in ItemTitles, c \in {JsUndefined, TextUri}, u \in TopLevelTotp}
    \cup {JsNull, TextS1, JsNumber(5), JsArray(<<>>)}

\* The vault names normalizeItem is called with.
VaultNameOverrides == {JsUndefined, JsString(<<"Personal">>)}

\* A vault's items as `item list` reports them.
WithState(item, state) == JsObject([item.v EXCEPT !.state = state])
LoginEntry ==
    RawItem(TextS1, JsUndefined, JsUndefined, TextI1, JsUndefined, JsUndefined, JsUndefined,
            RawContent(TextMail,
                       RawInner(RawLogin(JsString(<<"ann">>), TextUri, JsUndefined), JsUndefined,
                                JsUndefined, JsUndefined, JsUndefined, JsUndefined)),
            JsString(<<"Active">>), JsUndefined)
NoteEntry ==
    RawItem(TextS1, JsUndefined, JsUndefined, TextI2, JsUndefined, TextMemo, JsUndefined,
            JsUndefined, JsUndefined, JsUndefined)
UntitledEntry ==
    RawItem(TextS1, JsUndefined, JsUndefined, TextI2, JsUndefined, JsUndefined, JsUndefined,
            JsUndefined, JsUndefined, JsUndefined)
ListingEntries ==
    {LoginEntry,
     NoteEntry,
     WithState(NoteEntry, JsString(<<"Trashed">>)),
     WithState(NoteEntry, Padded(JsString(<<"Trashed">>))),
     WithState(NoteEntry, JsString(<<"trashed">>)),
     WithState(NoteEntry, JsNumber(5)),
     UntitledEntry,
     WithState(UntitledEntry, JsString(<<"Trashed">>)),
     JsNull,
     TextS1,
     JsArray(<<>>)}

\* The sequences over a set up to a length.
SeqsUpTo(S, n) == UNION {[1..k -> S] : k \in 0..n}

\* The failures of runCli the listings are checked with.
CliFailures ==
    {PassCliError(<<"Network error. Check your connection and try again.">>, "network_error"),
     PassCliError(<<"pass-cli timed out. Please try again.">>, "timeout")}

\* The outcomes of runCli(["item", "list", ...]): arrays of entries, an
\* object holding them under `items`, other JSON values, texts that are no
\* JSON, and failures.
ItemListOutcomes ==
    {Ok(JsonText(JsArray(e))) : e \in SeqsUpTo(ListingEntries, MaxEntries)}
    \cup {Ok(JsonText(JsObject([items |-> JsArray(<<LoginEntry>>)]))),
          Ok(JsonText(JsObject([items |-> JsNull]))),
          Ok(JsonText(JsObject([data |-> JsArray(<<LoginEntry>>)]))),
          Ok(JsonText(JsNull)),
          Ok(JsonText(TextS1)),
          Ok(NotJson),
          Ok(EmptyText)}
    \cup CliFailures

\* The vaults as `vault list` reports them.
PersonalEntry ==
    RawVault(TextS1, JsUndefined, JsUndefined, JsString(<<"Personal">>), JsNumber(2), JsUndefined,
             JsString(<<"owner">>))
WorkEntry ==
    RawVault(JsUndefined, TextS2, JsUndefined, JsString(<<"Work">>), JsUndefined, JsUndefined,
             JsUndefined)
NamelessEntry ==
    RawVault(TextS2, JsUndefined, JsUndefined, JsUndefined, JsUndefined, JsUndefined, JsUndefined)
VaultEntries == {PersonalEntry, WorkEntry, NamelessEntry, JsNull}

\* The outcomes of runCli(["vault", "list", ...]).
VaultListOutcomes ==
    {Ok(JsonText(JsArray(e))) : e \in SeqsUpTo(VaultEntries, MaxEntries)}
    \cup {Ok(JsonText(JsObject([vaults |-> JsArray(<<WorkEntry>>)]))),
          Ok(JsonText(JsObject([vaults |-> TextS1]))),
          Ok(JsonText(JsNull)),
          Ok(NotJson),
          Ok(EmptyText)}
    \cup CliFailures

\* The outcomes of one vault's listing inside listItems.
VaultItemOutcomes ==
    {Ok(JsonText(JsArray(<<>>))),
     Ok(JsonText(JsArray(<<LoginEntry>>))),
     Ok(JsonText(JsArray(<<LoginEntry, NoteEntry>>))),
     Ok(JsonText(JsArray(<<WithState(LoginEntry, JsString(<<"Trashed">>)), NoteEntry>>))),
     Ok(JsonText(JsArray(<<LoginEntry, UntitledEntry>>))),
     Ok(JsonText(JsObject([items |-> JsArray(<<NoteEntry>>)]))),
     Ok(JsonText(JsNull)),
     Ok(NotJson)}
    \cup CliFailures

\* The share ids listItems is called with: none, the empty text, the id of a
\* vault and an id no vault has.
ShareIdArguments == {JsUndefined, EmptyString, TextS1, JsString(<<"s9">>)}

\* No outcome yet.
Pending == [pending |-> TRUE]

\* The normalizer or a listing is called.
NormalizeVaultStarted(raw) == [op |-> "normalizeVault", pc |-> "run", raw |-> raw]
NormalizeItemStarted(raw, vaultNameOverride) ==
    [op |-> "normalizeItem", pc |-> "run", raw |-> raw, vaultName |-> vaultNameOverride]
ListVaultsStarted == [op |-> "listVaults", pc |-> "run"]
ListItemsFromVaultStarted(vaultName) ==
    [op |-> "listItemsFromVault", pc |-> "run", vaultName |-> vaultName]
ListItemsStarted(shareId) ==
    [op |-> "listItems", pc |-> "vaults", shareId |-> shareId, listing |-> Pending,
     vaults |-> <<>>, settled |-> <<>>, allItems |-> <<>>, vaultName |-> JsUndefined,
     result |-> Pending]

\* normalizeVault returns or throws.
NormalizeVaultReturns ==
    /\ call.op = "normalizeVault" /\ call.pc = "run"
    /\ call' = [op |-> "normalizeVault", pc |-> "done", raw |-> call.raw,
                result |-> normalizeVault(call.raw)]
    /\ UNCHANGED <<cacheVars, viewVars, proc>>

\* normalizeItem returns or throws.
NormalizeItemReturns ==
    /\ call.op = "normalizeItem" /\ call.pc = "run"
    /\ call' = [op |-> "normalizeItem", pc |-> "done", raw |-> call.raw,
                vaultName |-> call.vaultName,
                result |-> normalizeItem(call.raw, call.vaultName)]
    /\ UNCHANGED <<cacheVars, viewVars, proc>>

\* listVaults: runCli settles and listVaults returns or throws.
ListVaultsSettles ==
    /\ call.op = "listVaults" /\ call.pc = "run"
    /\ \E o \in VaultListOutcomes :
         call' = [op |-> "listVaults", pc |-> "done", output |-> o, result |-> listVaults(o)]
    /\ UNCHANGED <<cacheVars, viewVars, proc>>

\* listItemsFromVault: runCli settles and the listing returns or throws.
ListItemsFromVaultSettles ==
    /\ call.op = "listItemsFromVault" /\ call.pc = "run"
    /\ \E o \in ItemListOutcomes :
         call' = [op |-> "listItemsFromVault", pc |-> "done", vaultName |-> call.vaultName,
                  output |-> o, result |-> listItemsFromVault(o, call.vaultName)]
    /\ UNCHANGED <<cacheVars, viewVars, proc>>

\* listItems, lines 454 and 459: the vault listing settles.  Its failure
\* fails the call; with a share id the one vault is listed next, without one
\* the loop starts, and it ends at once when there is no vault.
ListItemsVaultsSettle ==
    /\ call.op = "listItems" /\ call.pc = "vaults"
    /\ \E o \in VaultListOutcomes :
         LET listed == listVaults(o)
         IN  call' = IF ~listed.ok
                     THEN [call EXCEPT !.pc = "done", !.listing = listed, !.result = listed]
                     ELSE IF ~isFalsy(call.shareId)
                     THEN [call EXCEPT !.pc = "one", !.listing = listed, !.vaults = listed.v,
                                       !.vaultName = vaultNameFor(listed.v, call.shareId)]
                     ELSE IF listed.v = <<>>
                     THEN [call EXCEPT !.pc = "done", !.listing = listed, !.result = Ok(<<>>)]
                     ELSE [call EXCEPT !.pc = "items", !.listing = listed, !.vaults = listed.v]
    /\ UNCHANGED <<cacheVars, viewVars, proc>>

\* listItems, line 457: the listing of the one vault settles.
ListItemsOneSettles ==
    /\ call.op = "listItems" /\ call.pc = "one"
    /\ \E o \in VaultItemOutcomes :
         LET listed == listItemsFromVault(o, call.vaultName)
         IN  call' = [call EXCEPT !.pc = "done", !.settled = <<listed>>, !.result = listed]
    /\ UNCHANGED <<cacheVars, viewVars, proc>>

\* listItems, lines 462-471: the listing of the next vault settles; after
\* the last vault the call returns the items gathered.
ListItemsVaultSettles ==
    /\ call.op = "listItems" /\ call.pc = "items"
    /\ \E o \in VaultItemOutcomes :
         LET vault == call.vaults[Len(call.settled) + 1]
             listed == listItemsFromVault(o, vault.name)
             gathered == pushItems(call.allItems, listed)
             last == Len(call.settled) + 1 = Len(call.vaults)
         IN  call' = [call EXCEPT !.settled = Append(@, listed),
                                  !.allItems = gathered,
                                  !.pc = IF last THEN "done" ELSE "items",
                                  !.result = IF last THEN Ok(gathered) ELSE Pending]
    /\ UNCHANGED <<cacheVars, viewVars, proc>>

\* A call of the normalizer or of a listing function, with any payload.
InitList ==
    /\ NoView
    /\ proc = NoProcess
    /\ \/ \E raw \in VaultPayloads : call = NormalizeVaultStarted(raw)
       \/ \E raw \in ItemPayloads, n \in VaultNameOverrides : call = NormalizeItemStarted(raw, n)
       \/ call = ListVaultsStarted
       \/ call = ListItemsFromVaultStarted(JsString(<<"Personal">>))
       \/ \E s \in ShareIdArguments : call = ListItemsStarted(s)

NextList ==
    \/ NormalizeVaultReturns
    \/ NormalizeItemReturns
    \/ ListVaultsSettles
    \/ ListItemsFromVaultSettles
    \/ ListItemsVaultsSettle
    \/ ListItemsOneSettles
    \/ ListItemsVaultSettles

SpecList == InitList /\ [][NextList]_vars

(***************************************************************************)
(* Item details, TOTP codes and password scores (lib/pass-cli.ts).         *)
(***************************************************************************)
\* normalizeCustomFields, lines 323-331: the callback of the map.
customField(field) ==
    IF ~isRecord(field) THEN JsUndefined
    ELSE LET name == trimOrUndefined(firstDefined(field, <<"name", "key">>))
             value == trimOrUndefined(Prop(field, "value"))
             typeRaw == trimOrUndefined(Prop(field, "type"))
             type == IF typeRaw.t = "string" /\ toLowerCase(typeRaw.v) = <<"hidden">>
                     THEN "hidden" ELSE "text"
         IN  IF isFalsy(name) \/ value.t = "undefined" THEN JsUndefined
             ELSE JsObject([name |-> name, value |-> value, type |-> type])

\* Boolean(f), for the values the callback returns.
isField(f) == f.t # "undefined"

\* A variant of normalizeCustomFields that returns the list it has built even
\* when the list is empty.
normalizeCustomFieldsKeepEmpty(raw) ==
    IF raw.t \in {"undefined", "null"} THEN JsUndefined
    ELSE IF ~isArray(raw) THEN JsUndefined
    ELSE JsArray(SelectSeq([i \in 1..Len(raw.v) |-> customField(raw.v[i])], isField))

\* normalizeCustomFields
normalizeCustomFields(raw) ==
    IF raw.t \in {"undefined", "null"} THEN JsUndefined
    ELSE IF ~isArray(raw) THEN JsUndefined
    ELSE LET mapped == SelectSeq([i \in 1..Len(raw.v) |-> customField(raw.v[i])], isField)
         IN  IF Len(mapped) > 0 THEN JsArray(mapped) ELSE JsUndefined

\* One entry of a custom-field array.
RawField(name, key, value, type) ==
    JsObject([type |-> type, name |-> name, value |-> value, key |-> key])

\* The entries of the custom-field arrays: complete ones (the name under
\* either spelling, padded, hidden), entries without a name or a value, with
\* a blank or a non-string one, and entries that are no objects.
FieldEntries ==
    {RawField(JsString(<<"pin">>), JsUndefined, JsString(<<"1234">>), JsString(<<"Hidden">>)),
     RawField(JsNull, JsString(<<"hint">>), Padded(JsString(<<"blue">>)), JsUndefined),
     RawField(JsUndefined, JsUndefined, JsString(<<"1234">>), JsUndefined),
     RawField(JsString(<<"pin">>), JsUndefined, JsUndefined, JsUndefined),
     RawField(BlankString, JsString(<<"hint">>), JsString(<<"blue">>), JsUndefined),
     RawField(JsString(<<"pin">>), JsUndefined, JsNumber(5), JsUndefined),
     JsNull,
     TextS1}

\* The values normalizeCustomFields is applied to.
CustomFieldPayloads ==
    {JsArray(e) : e \in SeqsUpTo(FieldEntries, MaxEntries)}
    \cup {JsUndefined, JsNull, TextS1, JsNumber(5),
          JsObject([name |-> JsString(<<"pin">>), value |-> JsString(<<"1234">>)])}

\* normalizeStringArray
normalizeStringArray(raw) ==
    IF ~isArray(raw) THEN JsUndefined
    ELSE LET values == SelectSeq([i \in 1..Len(raw.v) |-> trimOrUndefined(raw.v[i])], isField)
         IN  IF Len(values) > 0 THEN JsArray(values) ELSE JsUndefined

\* The first of the keys, in their order, under which the value holds an
\* object; undefined when there is none.
RECURSIVE firstRecordAt(_, _)
firstRecordAt(value, propKeys) ==
    IF Len(propKeys) = 0 THEN JsUndefined
    ELSE IF isRecord(Prop(value, Head(propKeys))) THEN Prop(value, Head(propKeys))
    ELSE firstRecordAt(value, Tail(propKeys))

\* getTypeSpecificData
typeKeys == <<"Login", "Note", "CreditCard", "credit_card", "Identity", "Alias", "SshKey", "ssh_key", "Wifi">>
getTypeSpecificData(raw) ==
    IF ~isRecord(innerContentOf(raw)) THEN JsUndefined
    ELSE firstRecordAt(innerContentOf(raw), typeKeys)

InvalidDetail == PassCliError(<<"Unexpected item details from pass-cli.">>, "invalid_output")

\* normalizeItemDetail, lines 375-379.
customFieldsOf(raw) ==
    LET outerContent == IF isRecord(Prop(raw, "content")) THEN Prop(raw, "content") ELSE raw
    IN  nullish(normalizeCustomFields(Prop(outerContent, "extra_fields")),
          nullish(normalizeCustomFields(Prop(outerContent, "extraFields")),
            nullish(normalizeCustomFields(Prop(raw, "extra_fields")),
                    normalizeCustomFields(Prop(raw, "extraFields")))))

\* normalizeItemDetail
normalizeItemDetail(raw) ==
    IF ~isRecord(raw) THEN InvalidDetail
    ELSE LET base == normalizeItem(raw, JsUndefined)
             outerContent == IF isRecord(Prop(raw, "content")) THEN Prop(raw, "content") ELSE raw
             typeData == getTypeSpecificData(raw)
         IN  IF ~base.ok THEN base
             ELSE Ok([shareId |-> base.v.shareId, itemId |-> base.v.itemId, title |-> base.v.title,
                      type |-> base.v.type, vaultName |-> base.v.vaultName,
                      username |-> base.v.username, email |-> base.v.email,
                      hasTotp |-> base.v.hasTotp,
                      password |-> IF typeData.t # "undefined"
                                   THEN trimOrUndefined(Prop(typeData, "password"))
                                   ELSE JsUndefined,
                      urls |-> IF typeData.t # "undefined"
                               THEN normalizeStringArray(Prop(typeData, "urls"))
                               ELSE JsUndefined,
                      note |-> trimOrUndefined(nullish(Prop(outerContent, "note"), Prop(raw, "note"))),
                      customFields |-> customFieldsOf(raw)])

\* unwrapItemResponse, line 477.
wrapperKeys == <<"item", "data", "result", "response", "payload">>

\* A variant of unwrapItemResponse that strips every envelope level.
RECURSIVE unwrapItemResponseDeep(_)
unwrapItemResponseDeep(data) ==
    IF ~isRecord(data) THEN data
    ELSE IF firstRecordAt(data, wrapperKeys).t = "undefined" THEN data
    ELSE unwrapItemResponseDeep(firstRecordAt(data, wrapperKeys))

\* unwrapItemResponse
unwrapItemResponse(data) ==
    IF ~isRecord(data) THEN data
    ELSE LET inner == firstRecordAt(data, wrapperKeys)
         IN  IF inner.t = "undefined" THEN data
             ELSE IF firstRecordAt(inner, wrapperKeys).t = "undefined" THEN inner
             ELSE firstRecordAt(inner, wrapperKeys)

\* getItem, lines 502-506, on the outcome of runCli.
getItem(outcome) ==
    IF ~outcome.ok THEN outcome
    ELSE LET data == parseJson(outcome.v, <<"item", "view">>)
         IN  IF ~data.ok THEN data
             ELSE normalizeItemDetail(unwrapItemResponse(data.v))

\* The item `item view` reports, by the properties the payloads use; `data`
\* is an envelope key that an item can hold itself.
RawDetail(id, share_id, title, content, note, extra_fields, extraFields, data) ==
    JsObject([id |-> id, title |-> title, data |-> data, share_id |-> share_id,
              content |-> content, note |-> note, extra_fields |-> extra_fields,
              extraFields |-> extraFields])

\* The outer content object of a detailed item.
RawDetailContent(title, content, note, extra_fields) ==
    JsObject([title |-> title, content |-> content, note |-> note, extra_fields |-> extra_fields])

\* The type-specific object of a detailed item.
RawSecret(password, urls) == JsObject([password |-> password, urls |-> urls])

\* Custom-field arrays: one with two complete entries around an incomplete
\* one, one whose entries are all incomplete, and the empty one.
SomeFields ==
    JsArray(<<RawField(JsString(<<"pin">>), JsUndefined, JsString(<<"1234">>), JsString(<<"Hidden">>)),
              RawField(JsString(<<"pin">>), JsUndefined, JsUndefined, JsUndefined),
              RawField(JsNull, JsString(<<"hint">>), Padded(JsString(<<"blue">>)), JsUndefined)>>)
OtherFields ==
    JsArray(<<RawField(JsString(<<"hint">>), JsUndefined, JsString(<<"red">>), JsUndefined)>>)
NoUsableFields ==
    JsArray(<<RawField(JsString(<<"pin">>), JsUndefined, JsUndefined, JsUndefined), JsNull>>)

\* The content objects of the detailed items.
DetailContents ==
    {JsUndefined,
     RawDetailContent(TextMail,
                      RawInner(RawSecret(JsString(<<"hunter2">>),
                                         JsArray(<<JsString(<<"https://mail.example">>), BlankString>>)),
                               JsUndefined, JsUndefined, JsUndefined, JsUndefined, JsUndefined),
                      JsString(<<"memo">>), SomeFields),
     RawDetailContent(JsUndefined,
                      RawInner(JsUndefined, JsUndefined, JsUndefined, JsUndefined, JsUndefined,
                               JsUndefined),
                      JsUndefined, NoUsableFields),
     RawDetailContent(TextMail, JsUndefined, JsUndefined, JsArray(<<>>))}

\* The items `item view` reports.
DetailItems ==
    {RawDetail(TextI1, TextS1, h, c, n, x[1], x[2], d) :
        h \in {TextMemo, JsUndefined},
        c \in DetailContents,
        n \in {JsUndefined, JsString(<<"remember">>)},
        x \in {<<JsUndefined, JsUndefined>>, <<SomeFields, JsUndefined>>,
               <<NoUsableFields, OtherFields>>, <<JsArray(<<>>), JsUndefined>>,
               <<TextS1, JsNull>>},
        d \in {JsUndefined, TextS1}}

\* One item in envelopes: none, one under each key, two, three, and an
\* envelope that holds objects under two keys or a text under the first key.
EnvelopedItem ==
    RawDetail(TextI1, TextS1, TextMemo, JsUndefined, JsUndefined, SomeFields, JsUndefined,
              JsUndefined)
Enveloped ==
    {JsObject([item |-> EnvelopedItem]),
     JsObject([data |-> EnvelopedItem]),
     JsObject([result |-> EnvelopedItem]),
     JsObject([response |-> EnvelopedItem]),
     JsObject([payload |-> EnvelopedItem]),
     JsObject([envelope |-> EnvelopedItem]),
     JsObject([data |-> JsObject([item |-> EnvelopedItem])]),
     JsObject([payload |-> JsObject([payload |-> EnvelopedItem])]),
     JsObject([result |-> JsObject([data |-> JsObject([item |-> EnvelopedItem])])]),
     JsObject([item |-> JsObject([item |-> JsObject([item |-> JsObject([item |-> EnvelopedItem])])])]),
     JsObject([item |-> EnvelopedItem, payload |-> JsObject([item |-> JsNull])]),
     JsObject([item |-> TextS1, payload |-> EnvelopedItem]),
     JsObject([item |-> JsArray(<<EnvelopedItem>>)]),
     RawDetail(TextI1, TextS1, TextMemo, JsUndefined, JsUndefined, JsUndefined, JsUndefined,
               JsObject([id |-> TextI2]))}

\* The outcomes of runCli(["item", "view", ...]).
ItemViewOutcomes ==
    {Ok(JsonText(v)) : v \in DetailItems \cup Enveloped \cup {JsNull, JsNumber(5), TextS1, JsArray(<<>>)}}
    \cup {Ok(NotJson), Ok(EmptyText)}
    \cup CliFailures

\* The keys of the TOTP maps of the model, with their UTF-16 code units.
TotpKeys == {"", "B", "a", "b", "sms", "totp"}
CodeUnits(key) ==
    CASE key = "" -> <<>>
      [] key = "0" -> <<48>>
      [] key = "1" -> <<49>>
      [] key = "B" -> <<66>>
      [] key = "a" -> <<97>>
      [] key = "b" -> <<98>>
      [] key = "sms" -> <<115, 109, 115>>
      [] key = "totp" -> <<116, 111, 116, 112>>

\* The order Array.prototype.sort puts two strings in: by code units.
RECURSIVE unitsBefore(_, _)
unitsBefore(a, b) ==
    IF Len(b) = 0 THEN FALSE
    ELSE IF Len(a) = 0 THEN TRUE
    ELSE IF Head(a) # Head(b) THEN Head(a) < Head(b)
    ELSE unitsBefore(Tail(a), Tail(b))
sortsBefore(a, b) == unitsBefore(CodeUnits(a), CodeUnits(b))

\* Object.entries(raw): the own keys of an object, the indexes of an array.
indexKey(i) == IF i = 1 THEN "0" ELSE "1"
entryKeys(raw) ==
    IF raw.t = "array" THEN {indexKey(i) : i \in 1..Len(raw.v)}
    ELSE {k \in DOMAIN raw.v : raw.v[k].t # "undefined"}
entryValue(raw, key) ==
    IF raw.t = "array" THEN raw.v[IF key = "0" THEN 1 ELSE 2] ELSE raw.v[key]

\* getTotpCodes, lines 514-526, on the outcome of runCli: the map of the
\* trimmed, non-empty codes.
getTotpCodes(outcome) ==
    IF ~outcome.ok THEN outcome
    ELSE LET data == parseJson(outcome.v, <<"item", "totp">>)
         IN  IF ~data.ok THEN data
             ELSE LET raw == IF isRecord(data.v) /\ isRecord(Prop(data.v, "totps"))
                             THEN Prop(data.v, "totps") ELSE data.v
                  IN  IF ~isRecord(raw)
                      THEN PassCliError(<<"Unexpected TOTP output from pass-cli.">>, "invalid_output")
                      ELSE Ok([k \in {e \in entryKeys(raw) :
                                        ~isFalsy(trimOrUndefined(entryValue(raw, e)))} |->
                                 trimOrUndefined(entryValue(raw, k)).v])

NoTotp == PassCliError(<<"No TOTP fields found for this item.">>, "invalid_output")

\* getTotp, lines 536-545, on the outcome of runCli.  The first key is
\* tested for truthiness: the empty key counts as none.
getTotp(outcome) ==
    LET codes == getTotpCodes(outcome)
    IN  IF ~codes.ok THEN codes
        ELSE IF "totp" \in DOMAIN codes.v THEN Ok(codes.v["totp"])
        ELSE IF DOMAIN codes.v = {} THEN NoTotp
        ELSE LET firstKey == CHOOSE k \in DOMAIN codes.v :
                                 \A o \in DOMAIN codes.v \ {k} : sortsBefore(k, o)
             IN  IF firstKey = "" THEN NoTotp ELSE Ok(codes.v[firstKey])

\* The code the model gives each key.
CodeFor(key) ==
    CASE key = "" -> <<"666666">>
      [] key = "B" -> <<"555555">>
      [] key = "a" -> <<"444444">>
      [] key = "b" -> <<"333333">>
      [] key = "sms" -> <<"111111">>
      [] key = "totp" -> <<"222222">>

\* The values a key can hold: none, its code, its code padded, a blank text,
\* a number.
TotpValues(key) ==
    {JsUndefined, JsString(CodeFor(key)), BlankString}
    \cup (IF key = "a" THEN {Padded(JsString(CodeFor(key))), JsNumber(5)} ELSE {})

\* The TOTP maps `item totp` reports.
TotpMaps == {JsObject(f) : f \in {g \in [TotpKeys -> UNION {TotpValues(k) : k \in TotpKeys}] :
                                     \A k \in TotpKeys : g[k] \in TotpValues(k)}}

\* The outcomes of runCli(["item", "totp", ...]).
TotpOutcomes ==
    {Ok(JsonText(v)) : v \in TotpMaps}
    \cup {Ok(JsonText(JsObject([totps |-> v]))) :
            v \in {JsObject([a |-> JsString(CodeFor("a")), b |-> JsString(CodeFor("b"))]),
                   JsObject([sms |-> JsString(CodeFor("sms")), totp |-> JsString(CodeFor("totp"))])}}
    \cup {Ok(JsonText(v)) : v \in {JsNull, JsNumber(5), TextS1, JsArray(<<>>),
                                   JsArray(<<JsString(CodeFor("b")), JsString(CodeFor("a"))>>),
                                   JsObject([totps |-> TextS1])}}
    \cup {Ok(NotJson), Ok(EmptyText)}
    \cup CliFailures

\* The error the runtime raises for a property read on null.
TypeError == [type |-> "TypeError", ok |-> FALSE, message |-> <<"Cannot read properties of null">>]

\* passwordScore, lines 570-571 and 577: the score as a finite number, for a
\* score that is a number, a text, null, absent or a plain object.
numericScoreOf(data) ==
    LET numericScoreValue == firstDefined(data, <<"numericScore", "numeric_score">>)
        numericScore == CASE numericScoreValue.t = "number" -> Num(numericScoreValue.v)
                          [] numericScoreValue.t \in {"null", "undefined"} -> Num(0)
                          [] numericScoreValue.t = "string" -> stringToNumber(numericScoreValue.v)
                          [] OTHER -> NaN
    IN  IF numericScore.nan THEN 0 ELSE numericScore.v

\* passwordScore, lines 567-580, on the outcome of runCli.  The parsed value
\* is not tested before its properties are read; the penalties of the model
\* are texts, which String leaves as they are.
passwordScore(outcome) ==
    IF ~outcome.ok THEN outcome
    ELSE LET data == parseJson(outcome.v, <<"password", "score">>)
         IN  IF ~data.ok THEN data
             ELSE IF data.v.t = "null" THEN TypeError
             ELSE Ok([numericScore |-> numericScoreOf(data.v),
                      passwordScore |->
                          nullish(trimOrUndefined(firstDefined(data.v, <<"passwordScore", "password_score">>)),
                                  JsString(<<"Unknown">>)),
                      penalties |-> IF isArray(Prop(data.v, "penalties"))
                                    THEN Prop(data.v, "penalties") ELSE JsUndefined])

\* The score objects `password score` reports.
RawScore(score, snakeScore, label, snakeLabel, penalties) ==
    JsObject([numericScore |-> score, passwordScore |-> label, penalties |-> penalties,
              numeric_score |-> snakeScore, password_score |-> snakeLabel])
ScorePayloads ==
    {RawScore(n[1], n[2], l[1], l[2], p) :
        n \in {<<JsNumber(7), JsUndefined>>, <<JsNull, JsString(<<"7">>)>>,
               <<JsUndefined, JsUndefined>>, <<JsString(<<"many">>), JsNumber(7)>>},
        l \in {<<JsString(<<"Strong">>), JsUndefined>>, <<JsUndefined, Padded(JsString(<<"Weak">>))>>,
               <<JsUndefined, JsUndefined>>, <<BlankString, JsString(<<"Weak">>)>>},
        p \in {JsUndefined, JsArray(<<>>), JsArray(<<JsString(<<"short">>)>>), TextS1}}

\* The outcomes of runCli(["password", "score", ...]).
ScoreOutcomes ==
    {Ok(JsonText(v)) : v \in ScorePayloads \cup {JsNull, JsNumber(5), TextS1, JsArray(<<>>)}}
    \cup {Ok(NotJson), Ok(EmptyText)}
    \cup CliFailures

\* A variant of truncateMiddle that gives the head half of the length.
truncateMiddleEvenSplit(value, maxLen) ==
    IF Len(value) <= maxLen THEN value
    ELSE LET head == maxLen \div 2
             tail == maxLen \div 2
         IN  SubSeq(value, 1, head) \o <<8230>> \o SubSeq(value, Len(value) - tail + 1, Len(value))

\* truncateMiddle, on a text as the sequence of its code units; the ellipsis
\* is the code unit 8230.
truncateMiddle(value, maxLen) ==
    IF Len(value) <= maxLen THEN value
    ELSE LET head == IF (maxLen - 1) \div 2 > 0 THEN (maxLen - 1) \div 2 ELSE 0
             tail == IF maxLen - head - 1 > 0 THEN maxLen - head - 1 ELSE 0
         IN  SubSeq(value, 1, head) \o <<8230>> \o SubSeq(value, Len(value) - tail + 1, Len(value))

\* runCli, lines 205-207: the message of a failure classified unknown.
DefaultMessage == [kind |-> "default"]
unknownMessage(combined) ==
    IF Len(combined) > 0 THEN [kind |-> "text", units |-> truncateMiddle(combined, 600)]
    ELSE DefaultMessage

\* The combined texts of the failures, by length: short ones, those around
\* the limit and long ones.  The code unit at position i is i.
CombinedLengths == (0..3) \cup (590..640) \cup (1198..1202)
CombinedTexts == {[i \in 1..n |-> i] : n \in CombinedLengths}

\* getErrorConfig (components/error-views): the configuration of the error
\* view for an error type.
getErrorConfig(errorType, contextTitle) ==
    CASE errorType = "not_installed" ->
           [icon |-> "XMarkCircle",
            title |-> <<"Proton Pass CLI Not Installed">>,
            description |-> <<"You need to install the Proton Pass CLI to use this extension. Click below to learn how to install it.">>,
            showDocsLink |-> TRUE, showRetry |-> FALSE]
      [] errorType = "not_authenticated" ->
           [icon |-> "Lock",
            title |-> <<"Not Logged In">>,
            description |-> <<"Run 'pass-cli login' in terminal to authenticate">>,
            showDocsLink |-> TRUE, showRetry |-> FALSE]
      [] errorType = "keyring_error" ->
           [icon |-> "Key",
            title |-> <<"Keyring Access Failed">>,
            description |-> <<"pass-cli could not access secure key storage. Try: pass-cli logout --force, then set PROTON_PASS_KEY_PROVIDER=fs and login again.">>,
            showDocsLink |-> TRUE, showRetry |-> TRUE]
      [] errorType = "network_error" ->
           [icon |-> "Wifi",
            title |-> <<"Network Error">>,
            description |-> <<"Check your internet connection and try again">>,
            showDocsLink |-> FALSE, showRetry |-> TRUE]
      [] errorType = "timeout" ->
           [icon |-> "Clock",
            title |-> <<"Request Timed Out">>,
            description |-> <<"pass-cli took too long to respond. Please try again.">>,
            showDocsLink |-> FALSE, showRetry |-> TRUE]
      [] OTHER ->
           [icon |-> "ExclamationMark",
            title |-> IF isFalsy(contextTitle) THEN <<"An Error Occurred">>
                      ELSE <<"Failed to">> \o contextTitle.v,
            description |-> <<"An error occurred. Please try again.">>,
            showDocsLink |-> TRUE, showRetry |-> TRUE]

\* The context titles the views pass to renderErrorView.
ContextTitles ==
    {JsUndefined, EmptyString, JsString(<<"Load Items">>), JsString(<<"Load TOTP Items">>),
     JsString(<<"Generate Password">>)}

\* A function of the normalizer is called.
NormalizeCustomFieldsStarted(raw) == [op |-> "normalizeCustomFields", pc |-> "run", raw |-> raw]
GetItemStarted(output) == [op |-> "getItem", pc |-> "run", output |-> output]
GetTotpStarted(output) == [op |-> "getTotp", pc |-> "run", output |-> output]
PasswordScoreStarted(output) == [op |-> "passwordScore", pc |-> "run", output |-> output]
UnknownMessageStarted(combined) == [op |-> "unknownMessage", pc |-> "run", combined |-> combined]
ErrorViewStarted(errorType, contextTitle) ==
    [op |-> "getErrorConfig", pc |-> "run", errorType |-> errorType, contextTitle |-> contextTitle]

NormalizeCustomFieldsReturns ==
    /\ call.op = "normalizeCustomFields" /\ call.pc = "run"
    /\ call' = [op |-> "normalizeCustomFields", pc |-> "done", raw |-> call.raw,
                result |-> normalizeCustomFields(call.raw)]
    /\ UNCHANGED <<cacheVars, viewVars, proc>>

GetItemSettles ==
    /\ call.op = "getItem" /\ call.pc = "run"
    /\ call' = [op |-> "getItem", pc |-> "done", output |-> call.output,
                result |-> getItem(call.output)]
    /\ UNCHANGED <<cacheVars, viewVars, proc>>

GetTotpSettles ==
    /\ call.op = "getTotp" /\ call.pc = "run"
    /\ call' = [op |-> "getTotp", pc |-> "done", output |-> call.output,
                result |-> getTotp(call.output)]
    /\ UNCHANGED <<cacheVars, viewVars, proc>>

PasswordScoreSettles ==
    /\ call.op = "passwordScore" /\ call.pc = "run"
    /\ call' = [op |-> "passwordScore", pc |-> "done", output |-> call.output,
                result |-> passwordScore(call.output)]
    /\ UNCHANGED <<cacheVars, viewVars, proc>>

UnknownMessageBuilt ==
    /\ call.op = "unknownMessage" /\ call.pc = "run"
    /\ call' = [op |-> "unknownMessage", pc |-> "done", combined |-> call.combined,
                result |-> unknownMessage(call.combined)]
    /\ UNCHANGED <<cacheVars, viewVars, proc>>

\* ErrorListView / ErrorDetailView: the view is rendered from the
\* configuration of its error type.
ErrorViewRendered ==
    /\ call.op = "getErrorConfig" /\ call.pc = "run"
    /\ call' = [op |-> "getErrorConfig", pc |-> "done", errorType |-> call.errorType,
                contextTitle |-> call.contextTitle,
                result |-> getErrorConfig(call.errorType, call.contextTitle)]
    /\ UNCHANGED <<cacheVars, viewVars, proc>>

\* A call with any payload; runCli's outcome is what the call will receive.
InitDetail ==
    /\ NoView
    /\ proc = NoProcess
    /\ \/ \E raw \in CustomFieldPayloads : call = NormalizeCustomFieldsStarted(raw)
       \/ \E o \in ItemViewOutcomes : call = GetItemStarted(o)
       \/ \E o \in TotpOutcomes : call = GetTotpStarted(o)
       \/ \E o \in ScoreOutcomes : call = PasswordScoreStarted(o)
       \/ \E c \in CombinedTexts : call = UnknownMessageStarted(c)
       \/ \E e \in PassCliErrorTypes, c \in ContextTitles : call = ErrorViewStarted(e, c)

NextDetail ==
    \/ NormalizeCustomFieldsReturns
    \/ GetItemSettles
    \/ GetTotpSettles
    \/ PasswordScoreSettles
    \/ UnknownMessageBuilt
    \/ ErrorViewRendered

SpecDetail == InitDetail /\ [][NextDetail]_vars

(***************************************************************************)
(* Claims about the cache (checked under SpecCache).                       *)
(***************************************************************************)
HasRead == lastRead.key # "none"

\* The stored text of the last read is a record whose timestamp converts to
\* a number, and AgeOfRead is its age at the time of the read.
ReadHasAge ==
    /\ HasRead
    /\ lastRead.raw.kind = "json"
    /\ lastRead.raw.value.t = "object"
    /\ ~ToNumber(lastRead.raw.value.timestamp).nan

AgeOfRead == lastRead.at - ToNumber(lastRead.raw.value.timestamp).v

\* C1: a cache read returns data only from a stored entry whose age
\* (now - timestamp) is below five minutes, and then exactly the stored data;
\* an entry aged five minutes or more reads as null.
C1_NoStaleRead ==
    HasRead =>
        /\ lastRead.result.kind = "value" =>
              /\ ReadHasAge
              /\ AgeOfRead < 5 * 60 * 1000
              /\ lastRead.raw.value.data.t = "list"
              /\ lastRead.result.data = lastRead.raw.value.data.v
        /\ (ReadHasAge /\ AgeOfRead >= 5 * 60 * 1000) => lastRead.result = RNull

\* C1 witness: an entry written by setCache is read exactly five minutes
\* later and reads as null.
C1_Witness ==
    /\ HasRead
    /\ lastRead.wrote.written
    /\ Len(lastRead.wrote.v) > 0
    /\ lastRead.at - lastRead.wrote.at = 5 * 60 * 1000
    /\ lastRead.result = RNull

\* C2: a write overwrites data and timestamp whatever the slot held, so a read
\* of the slot (the storage answering) with no write or clear in between gives
\* a list equal to the written one when less than five minutes have passed,
\* and null when five minutes or more have passed.
C2_RoundTrip ==
    (HasRead /\ lastRead.wrote.written /\ ~lastRead.storageFails) =>
        IF lastRead.at - lastRead.wrote.at < 5 * 60 * 1000
        THEN /\ lastRead.result.kind = "value"
             /\ JsEqual(lastRead.result.data, lastRead.wrote.v)
        ELSE lastRead.result = RNull

\* C2 witness: a list with an undefined optional field is written and read
\* back later within the TTL; the list read is equal to the written one
\* although its objects no longer carry the undefined properties.
C2_Witness ==
    /\ HasRead
    /\ lastRead.wrote.written
    /\ ~lastRead.storageFails
    /\ lastRead.at > lastRead.wrote.at
    /\ lastRead.result.kind = "value"
    /\ Len(lastRead.wrote.v) > 0
    /\ "email" \notin DOMAIN lastRead.result.data[1]
    /\ JsEqual(lastRead.result.data, lastRead.wrote.v)

\* The stored text of the last read deserializes to a {data, timestamp}
\* record: an object with a data list and a numeric timestamp.
ReadIsCachedData ==
    /\ lastRead.raw.kind = "json"
    /\ lastRead.raw.value.t = "object"
    /\ lastRead.raw.value.data.t = "list"
    /\ lastRead.raw.value.timestamp.t = "number"

\* C3: a cache read never throws, and it returns no data (null) when the
\* storage access fails or the stored text is missing, is not JSON or does not
\* deserialize to a {data, timestamp} record.
C3_MalformedReadsAbsent ==
    HasRead =>
        /\ lastRead.result.kind # "throws"
        /\ (lastRead.storageFails \/ ~ReadIsCachedData) =>
              lastRead.result.kind \in {"null", "undefined"}

(***************************************************************************)
(* Claims about the loads of the views.                                    *)
(***************************************************************************)
\* The lists a and b hold the same items in the same order, whatever their
\* codes.
SameItems(a, b) ==
    /\ Len(a) = Len(b)
    /\ \A i \in 1..Len(a) : a[i].shareId = b[i].shareId /\ a[i].itemId = b[i].itemId

\* The slot `key` holds an entry whose data is `list`.
Holds(key, list) ==
    /\ store[key].kind = "json"
    /\ store[key].value.t = "object"
    /\ store[key].value.data.t = "list"
    /\ JsEqual(store[key].value.data.v, list)

\* C4: in each of the three views an error is on display only if nothing was
\* ever displayed from the cache in that view instance (a failed fresh fetch
\* leaves cached data on display).
C4_ErrorOnlyIfNothingShown ==
    /\ cmd = "search" => (search.error # NoError => ~search.hasLoadedFromCache)
    /\ cmd = "vaults" => (vlist.error # NoError => ~vlist.hasLoadedFromCache)
    /\ cmd = "totp" => (totp.error # NoError => ~totp.shownFromCache)

C6_FreshSupersedes ==
    /\ (cmd = "search" /\ search.exit = "saved") =>
          (search.items = search.freshItems /\ search.vaults = search.freshVaults)
    /\ (cmd = "totp" /\ totp.exit = "saved") =>
          SameItems(totp.items, FilterHasTotp(totp.freshItems))

\* C7: a refreshTotpCodes call that writes the item snapshot writes it from
\* the copy that is still current: no other flow has written the snapshot
\* since the call read it.
C7_NoLostUpdate ==
    lastBatch.done => lastBatch.currentItems = lastBatch.refBefore

(***************************************************************************)
(* Claims about the countdown and the refresh batches.                     *)
(***************************************************************************)
\* C8: the remaining seconds computed at the mount and at every tick are
\* 30 - (floor(now/1000) mod 30), lie in 1..30, and are 30 exactly in the
\* first second of a 30-second window.
C8_RemainingSeconds ==
    cmd = "totp" =>
        /\ totp.remainingSeconds = 30 - ((now \div 1000) % 30)
        /\ totp.remainingSeconds \in 1..30
        /\ (totp.remainingSeconds = 30) <=> (now % 30000 < 1000)

\* C8 witness: a tick that ran off a second boundary, in the first second of
\* a window, computed 30.
C8_Witness ==
    /\ cmd = "totp" /\ tick.whole
    /\ now % 1000 # 0
    /\ totp.remainingSeconds = 30

\* C9: while the view is mounted the ticks start exactly one refresh batch in
\* every 30-second window: at most one in the window of the latest tick, and
\* exactly one in a whole window that has ended.
C9_OncePerWindow ==
    (cmd = "totp" /\ totp.mounted) => (tick.fired <= 1 /\ tick.closed \in {-1, 1})

\* C10: a completed refresh batch keeps every item of its snapshot in place;
\* an item whose fetch failed is exactly as it was in the snapshot, an item
\* whose fetch succeeded carries the fetched code and is otherwise unchanged,
\* and the batch ends with the refreshing flag cleared and no error set.
C10_PerItemDegradation ==
    lastBatch.done =>
        LET cur == lastBatch.currentItems
            outs == lastBatch.outs
        IN  /\ SameItems(totp.items, cur)
            /\ totp.itemsRef = totp.items
            /\ \A i \in 1..Len(cur) :
                 IF outs[i].ok
                 THEN totp.items[i] = WithTotp(cur[i], outs[i].v)
                 ELSE totp.items[i] = cur[i]
            /\ ~totp.isRefreshing
            /\ totp.error = lastBatch.errorBefore

\* C10 witness: a batch over two items in which the first fetch replaced an
\* older code by a new one and the second failed for an item that had a code.
C10_Witness ==
    /\ lastBatch.done
    /\ Len(lastBatch.currentItems) = 2
    /\ lastBatch.outs[1].ok /\ ~lastBatch.outs[2].ok
    /\ lastBatch.currentItems[1].currentTotp \notin {Undefined, lastBatch.outs[1].v}
    /\ lastBatch.currentItems[2].currentTotp # Undefined
    /\ totp.items[2].currentTotp # Undefined

\* C11: the view has its one interval timer exactly while it is mounted, and
\* once the view is torn down no tick runs (the timer's record and the clock
\* stay as they are) and no refresh batch is started.
C11_TimerReleased ==
    /\ [](cmd = "totp" => (tick.active <=> totp.mounted))
    /\ [][(cmd = "totp" /\ ~totp.mounted) =>
            (tick' = tick /\ now' = now /\ Len(refreshes') <= Len(refreshes))]_vars

\* C11 witness: the view was torn down after a window rollover, with a
\* refresh batch still in flight.
C11_Witness ==
    /\ cmd = "totp" /\ ~totp.mounted /\ ~tick.active
    /\ tick.whole /\ Len(refreshes) > 0

(***************************************************************************)
(* Claims about the process runner.                                        *)
(***************************************************************************)
\* runCli has classified a failed invocation.
Classified == proc.pc = "done" /\ proc.error.caught

\* The failure was a kill at the enforced timeout.
TimedOut(err) == err.killed /\ err.signal.t = "string"

\* The lower-cased combined stderr and exception text of the failure.
FailureText(err) == toLowerCase(combinedText(err))

\* stderr of the failure contains the phrase.
StderrContains(err, phrase) == err.stderr.t = "string" /\ includes(err.stderr.v, phrase)

\* C12: a failed invocation gets the type of the first rule it matches, in the
\* order timeout, not_installed, keyring_error, not_authenticated,
\* network_error, unknown; the phrases are matched on the combined stderr and
\* exception text whatever its case.
C12_FirstRuleWins ==
    Classified =>
        LET err == proc.error.err
        IN  proc.result.type =
               IF TimedOut(err) THEN "timeout"
               ELSE IF isEnoent(err) THEN "not_installed"
               ELSE IF includesAny(FailureText(err), KeyringPhrases) THEN "keyring_error"
               ELSE IF includesAny(FailureText(err), AuthPhrases) THEN "not_authenticated"
               ELSE IF includesAny(FailureText(err), NetworkPhrases) THEN "network_error"
               ELSE "unknown"

\* C12 witness: a failure whose text matches an authentication phrase and, in
\* capitals, a network phrase was classified not_authenticated.
C12_Witness ==
    /\ Classified
    /\ ~TimedOut(proc.error.err) /\ ~isEnoent(proc.error.err)
    /\ StderrContains(proc.error.err, <<"please", "login">>)
    /\ StderrContains(proc.error.err, <<"Connection", "refused">>)
    /\ proc.result.type = "not_authenticated"

\* C13 as stated: stderr containing "not authenticated" gives
\* not_authenticated, stderr containing "connection refused" gives
\* network_error, and an executable-not-found condition gives not_installed.
C13_StderrDecides ==
    Classified =>
        LET err == proc.error.err
        IN  /\ StderrContains(err, <<"not", "authenticated">>) =>
                 proc.result.type = "not_authenticated"
            /\ StderrContains(err, <<"connection", "refused">>) =>
                 proc.result.type = "network_error"
            /\ isEnoent(err) => proc.result.type = "not_installed"

\* C13 amended: the two phrases decide the type when no earlier rule matches
\* (no timeout kill, no ENOENT, no key-storage phrase and, for "connection
\* refused", no authentication phrase); an executable-not-found condition
\* gives not_installed whatever stderr holds.
C13_StderrDecidesUnlessEarlierRule ==
    Classified =>
        LET err == proc.error.err
            earlier == TimedOut(err) \/ isEnoent(err)
                          \/ includesAny(FailureText(err), KeyringPhrases)
        IN  /\ (StderrContains(err, <<"not", "authenticated">>) /\ ~earlier) =>
                 proc.result.type = "not_authenticated"
            /\ (StderrContains(err, <<"connection", "refused">>) /\ ~earlier
                  /\ ~includesAny(FailureText(err), AuthPhrases)) =>
                 proc.result.type = "network_error"
            /\ isEnoent(err) => proc.result.type = "not_installed"

\* C13 witness: an ENOENT failure whose stderr and message hold phrases of
\* the later rules was classified not_installed.
C13_Witness ==
    /\ Classified
    /\ isEnoent(proc.error.err)
    /\ includesAny(FailureText(proc.error.err), AuthPhrases)
    /\ includesAny(FailureText(proc.error.err), NetworkPhrases)
    /\ proc.result.type = "not_installed"

\* C14: one invocation spawns at most twice; the second spawn happens only on
\* win32, only after an ENOENT failure of the first, only for a path that does
\* not end in .exe, and runs that path with .exe appended; a failure of the
\* second spawn is classified like any other and ends the invocation.
C14_SingleRetry ==
    proc.pc # "none" =>
        /\ Len(proc.spawns) <= 2
        /\ proc.spawns[1] = proc.cliPath
        /\ Len(proc.spawns) = 2 =>
              /\ proc.platform = "win32"
              /\ proc.retriedAfter.caught /\ isEnoent(proc.retriedAfter.err)
              /\ ~endsWith(proc.cliPath, <<".exe">>)
              /\ proc.spawns[2] = proc.cliPath \o <<".exe">>
        /\ Classified =>
              /\ ~proc.result.ok
              /\ proc.result = runCliCatch(proc.error.err, proc.cliPath)

\* C14 witness: on win32 both spawns failed with ENOENT and the invocation
\* ended as not_installed.
C14_Witness ==
    /\ Classified
    /\ Len(proc.spawns) = 2
    /\ isEnoent(proc.error.err)
    /\ proc.result.type = "not_installed"

\* C15: checkAuth returns true when the probe succeeds, false when and only
\* when it fails as not_authenticated, and otherwise throws the probe's error
\* with its type and message unchanged.
C15_CheckAuth ==
    (call.op = "checkAuth" /\ call.pc = "done") =>
        IF proc.result.ok THEN call.result.ok /\ call.result.v = TRUE
        ELSE IF proc.result.type = "not_authenticated"
        THEN call.result.ok /\ call.result.v = FALSE
        ELSE /\ ~call.result.ok
             /\ call.result.type = proc.result.type
             /\ call.result.message = proc.result.message

\* C15 witness: the probe failed with a network error and checkAuth threw it.
C15_Witness ==
    /\ call.op = "checkAuth" /\ call.pc = "done"
    /\ ~proc.result.ok /\ proc.result.type = "network_error"
    /\ ~call.result.ok /\ call.result.type = "network_error"

(***************************************************************************)
(* Claims about the listings and the normalizer (checked under SpecList).  *)
(***************************************************************************)
\* The items of the listings that succeeded, in the order of the listings.
RECURSIVE ConcatOk(_)
ConcatOk(outcomes) ==
    IF Len(outcomes) = 0 THEN <<>>
    ELSE (IF Head(outcomes).ok THEN Head(outcomes).v ELSE <<>>) \o ConcatOk(Tail(outcomes))

\* listItems was called without a vault id and has returned or thrown.
AggregateDone == call.op = "listItems" /\ call.pc = "done" /\ isFalsy(call.shareId)

\* C16: listItems without a vault id fails exactly when the vault listing
\* fails, with that failure; otherwise every vault was listed in turn and the
\* result is the concatenation, in vault order, of the items of the vaults
\* whose listing succeeded.
C16_SkipsFailedVaults ==
    AggregateDone =>
        IF call.listing.ok
        THEN /\ call.result.ok
             /\ Len(call.settled) = Len(call.listing.v)
             /\ call.result.v = ConcatOk(call.settled)
        ELSE /\ ~call.result.ok
             /\ call.result.type = call.listing.type
             /\ call.result.message = call.listing.message
             /\ call.settled = <<>>

\* C16 witness: of two vaults the first held items, the listing of the second
\* failed on malformed output, and the call returned the first vault's items.
C16_Witness ==
    /\ AggregateDone
    /\ call.listing.ok
    /\ Len(call.settled) = 2
    /\ call.settled[1].ok /\ Len(call.settled[1].v) > 0
    /\ ~call.settled[2].ok /\ call.settled[2].type = "invalid_output"
    /\ call.result.ok /\ call.result.v = call.settled[1].v

\* The entries of the array a listing's output holds, when it holds one.
ListedArray(output) == output.ok /\ output.v.kind = "json" /\ isArray(output.v.value)
EntriesOf(output) == output.v.value.v

\* The state the command-line tool reports for the entry is "Trashed".
isTrashed(entry) ==
    /\ isRecord(entry)
    /\ trimOrUndefined(Prop(entry, "state")) = JsString(<<"Trashed">>)
notTrashed(entry) == ~isTrashed(entry)

\* A vault's items have been listed from an array of entries.
VaultListed ==
    /\ call.op = "listItemsFromVault" /\ call.pc = "done"
    /\ ListedArray(call.output)

\* C17: a vault's listing is the normalization, in the original order, of
\* exactly the entries whose state is not "Trashed": it is their normalized
\* items when all of them normalize, and it fails otherwise; the trashed
\* entries have no part in it.
C17_TrashedExcluded ==
    VaultListed =>
        LET others == SelectSeq(EntriesOf(call.output), notTrashed)
        IN  call.result =
               mapOutcomes([i \in 1..Len(others) |-> normalizeItem(others[i], call.vaultName)])

\* The text is not empty and has no white space around it.
NonEmptyText(value) == value.t = "string" /\ value.v # <<>> /\ trim(value.v) = value.v

\* The payload's value for a required field is a string that is not blank.
Usable(value) == value.t = "string" /\ trim(value.v) # <<>>

\* The values a payload gives for the required fields: a field that has
\* several spellings is the first spelling that is neither absent nor null.
VaultShareIdOf(raw) == firstDefined(raw, <<"share_id", "shareId", "shareID", "id">>)
VaultNameOf(raw) == Prop(raw, "name")
ItemShareIdOf(raw) ==
    firstDefined(raw, <<"share_id", "shareId", "shareID", "vaultShareId", "vault_share_id">>)
ItemIdOf(raw) == firstDefined(raw, <<"id", "itemId", "item_id", "itemID">>)
TitleOf(raw) ==
    nullish(IF isRecord(Prop(raw, "content")) THEN Prop(Prop(raw, "content"), "title")
            ELSE Prop(raw, "title"),
            firstDefined(raw, <<"title", "name">>))

VaultComplete(raw) == Usable(VaultShareIdOf(raw)) /\ Usable(VaultNameOf(raw))
ItemComplete(raw) == Usable(ItemShareIdOf(raw)) /\ Usable(ItemIdOf(raw)) /\ Usable(TitleOf(raw))

\* The returned record has its required fields, trimmed, from the payload.
VaultFilled(vault, raw) ==
    /\ NonEmptyText(vault.shareId) /\ vault.shareId.v = trim(VaultShareIdOf(raw).v)
    /\ NonEmptyText(vault.name) /\ vault.name.v = trim(VaultNameOf(raw).v)
ItemFilled(item, raw) ==
    /\ NonEmptyText(item.shareId) /\ item.shareId.v = trim(ItemShareIdOf(raw).v)
    /\ NonEmptyText(item.itemId) /\ item.itemId.v = trim(ItemIdOf(raw).v)
    /\ NonEmptyText(item.title) /\ item.title.v = trim(TitleOf(raw).v)

\* The call failed with invalid_output.
FailedInvalid == ~call.result.ok /\ call.result.type = "invalid_output"

DiscriminatorKeys ==
    {"Login", "Note", "CreditCard", "credit_card", "Identity", "Alias", "SshKey", "ssh_key", "Wifi"}

\* The payload has a content object, and it holds none of the keys.
NoRecognizedKey(raw) ==
    /\ isRecord(raw)
    /\ isRecord(innerContentOf(raw))
    /\ \A k \in DiscriminatorKeys : Prop(innerContentOf(raw), k).t = "undefined"

\* normalizeItem has returned or thrown for such a payload.
NormalizedNoKey == call.op = "normalizeItem" /\ call.pc = "done" /\ NoRecognizedKey(call.raw)

\* C19 as stated: an item whose content object holds none of the recognized
\* keys normalizes, with the type note; normalizeItem does not throw.
C19_NoKeyIsNote ==
    NormalizedNoKey => (call.result.ok /\ call.result.v.type = "note")

\* C19 amended: for such a payload the type detection yields note and never
\* throws, so the item normalizes with the type note whenever its required
\* fields are non-blank strings; when one is not, normalizeItem fails with
\* invalid_output, as it does for every item.
C19_NoKeyIsNoteWhenComplete ==
    NormalizedNoKey =>
        /\ getItemTypeFromContent(innerContentOf(call.raw)).type = "note"
        /\ IF ItemComplete(call.raw)
           THEN call.result.ok /\ call.result.v.type = "note"
           ELSE FailedInvalid

\* C19 witness: a complete item whose content object holds only a key the
\* code does not know was normalized as a note.
C19_Witness ==
    /\ NormalizedNoKey
    /\ isRecord(Prop(innerContentOf(call.raw), "Passkey"))
    /\ call.result.ok /\ call.result.v.type = "note"

\* The Login object of the payload, and the TOTP URI it holds: the first of
\* totp_uri and totpUri that is neither absent nor null.
LoginOf(raw) ==
    IF isRecord(raw) /\ isRecord(innerContentOf(raw))
    THEN Prop(innerContentOf(raw), "Login")
    ELSE JsUndefined
LoginTotpOf(raw) == firstDefined(LoginOf(raw), <<"totp_uri", "totpUri">>)

\* The items a completed call returned.
ReturnedItems ==
    IF call.op \in {"listItemsFromVault", "listItems"} /\ call.pc = "done" /\ call.result.ok
    THEN {call.result.v[i] : i \in 1..Len(call.result.v)}
    ELSE {}

\* C20: a normalized item has hasTotp exactly when its payload holds a Login
\* object (which makes its type login) whose TOTP URI is a non-blank string,
\* whatever the payload holds outside the Login object; hence every item
\* with hasTotp, returned by the normalizer or by a listing, has type login.
C20_TotpFromLoginOnly ==
    /\ (call.op = "normalizeItem" /\ call.pc = "done" /\ call.result.ok) =>
          /\ call.result.v.hasTotp <=>
                /\ call.result.v.type = "login"
                /\ isRecord(LoginOf(call.raw))
                /\ Usable(LoginTotpOf(call.raw))
          /\ call.result.v.type = "login" <=> isRecord(LoginOf(call.raw))
    /\ \A item \in ReturnedItems : item.hasTotp => item.type = "login"

\* C20 witness: a login whose TOTP URI stands, padded with white space, under
\* totpUri was normalized with hasTotp, and the item itself held no TOTP URI.
C20_Witness ==
    /\ call.op = "normalizeItem" /\ call.pc = "done" /\ call.result.ok
    /\ call.result.v.hasTotp /\ call.result.v.type = "login"
    /\ Prop(LoginOf(call.raw), "totp_uri").t = "null"
    /\ Usable(Prop(LoginOf(call.raw), "totpUri"))
    /\ Prop(call.raw, "totp_uri").t = "undefined"

(***************************************************************************)
(* Claims about item details, TOTP codes and password scores.              *)
(***************************************************************************)
\* The name a custom-field entry gives: the first spelling that is neither
\* absent nor null.
FieldNameOf(entry) == nullish(Prop(entry, "name"), Prop(entry, "key"))

\* The entry is an object with a name and a value that are texts and not blank.
CompleteField(entry) ==
    /\ isRecord(entry)
    /\ Usable(FieldNameOf(entry))
    /\ Usable(Prop(entry, "value"))

\* The normalized list holds the complete entries of the array, in the
\* array's order, or is absent when the array has none.
FieldsKept(raw, result) ==
    LET kept == SelectSeq(raw.v, CompleteField)
    IN  IF Len(kept) = 0 THEN result = JsUndefined
        ELSE /\ result.t = "array"
             /\ Len(result.v) = Len(kept)
             /\ \A i \in 1..Len(kept) :
                    /\ Prop(result.v[i], "name").v = trim(FieldNameOf(kept[i]).v)
                    /\ Prop(result.v[i], "value").v = trim(Prop(kept[i], "value").v)

\* C21: of a custom-field array the entries without a usable name or value
\* are dropped one by one and the others are kept in the array's order; an
\* array with no complete entry normalizes to undefined, so the customFields
\* of a detailed item are undefined or a list that is not empty.
C21_FieldsDroppedIndividually ==
    /\ (call.op = "normalizeCustomFields" /\ call.pc = "done" /\ isArray(call.raw))
          => FieldsKept(call.raw, call.result)
    /\ (call.op = "getItem" /\ call.pc = "done" /\ call.result.ok)
          => \/ call.result.v.customFields = JsUndefined
             \/ /\ call.result.v.customFields.t = "array"
                /\ Len(call.result.v.customFields.v) > 0

\* C21 witness: an array of several entries lost an incomplete entry and
\* kept a complete one.
C21_Witness ==
    /\ call.op = "normalizeCustomFields" /\ call.pc = "done"
    /\ isArray(call.raw) /\ Len(call.raw.v) > 1
    /\ ~CompleteField(call.raw.v[1])
    /\ call.result.t = "array"
    /\ Len(call.result.v) < Len(call.raw.v)

\* The TOTP map of a parsed output: the object under `totps`, or the output.
TotpMapOf(data) ==
    IF isRecord(data) /\ isRecord(Prop(data, "totps")) THEN Prop(data, "totps") ELSE data

\* The keys of a TOTP map whose value is a text that is not blank.
UsableKeys(raw) == {k \in entryKeys(raw) : Usable(entryValue(raw, k))}

\* The first of a set of keys in lexicographic order.
FirstKey(keys) == CHOOSE k \in keys : \A o \in keys \ {k} : sortsBefore(k, o)

\* getTotp was given a TOTP map.
TotpMapGiven ==
    /\ call.op = "getTotp" /\ call.pc = "done"
    /\ call.output.ok /\ call.output.v.kind = "json"
    /\ isRecord(TotpMapOf(call.output.v.value))

\* C22: getTotp returns the value of the key `totp` when that value is
\* usable, otherwise the value of the lexicographically first of the keys
\* with a usable value, and fails with invalid_output when no value is usable.
C22_TotpSelection ==
    TotpMapGiven =>
        LET raw == TotpMapOf(call.output.v.value)
            keys == UsableKeys(raw)
        IN  IF "totp" \in keys THEN call.result = Ok(trim(entryValue(raw, "totp").v))
            ELSE IF keys = {} THEN ~call.result.ok /\ call.result.type = "invalid_output"
            ELSE call.result = Ok(trim(entryValue(raw, FirstKey(keys)).v))

\* C22, for the maps that have no usable value under the empty key: there
\* the selection is the one stated.
C22_TotpSelectionNamedKeys ==
    (TotpMapGiven /\ "" \notin UsableKeys(TotpMapOf(call.output.v.value))) => C22_TotpSelection

\* C22 witness: a map without the key `totp` gave the value of its first key.
C22_WitnessFirstKey ==
    /\ TotpMapGiven
    /\ "totp" \notin UsableKeys(TotpMapOf(call.output.v.value))
    /\ {"a", "b"} \subseteq UsableKeys(TotpMapOf(call.output.v.value))
    /\ call.result = Ok(<<"444444">>)

\* A normalizing operation of the detail model has settled on an output of
\* the CLI.
NormalizingDone ==
    /\ call.op \in {"getItem", "getTotp", "passwordScore"}
    /\ call.pc = "done"
    /\ call.output.ok

\* The output is no JSON, or JSON for null, a number or a text: a value that
\* is neither an object nor a list.
NoStructure(text) ==
    \/ text.kind # "json"
    \/ text.value.t \in {"null", "number", "string"}

\* C23: a normalizing operation whose output does not parse, or parses to a
\* value that is neither an object nor a list, fails with invalid_output: it
\* raises no other error and returns no record.
C23_InvalidOutputOnMismatch ==
    (NormalizingDone /\ NoStructure(call.output.v))
        => ~call.result.ok /\ call.result.type = "invalid_output"

\* C23, for getItem and getTotp, and for passwordScore on an output that
\* does not parse.
C23_InvalidOutputExceptScore ==
    (NormalizingDone /\ NoStructure(call.output.v)
       /\ (call.op = "passwordScore" => call.output.v.kind # "json"))
        => ~call.result.ok /\ call.result.type = "invalid_output"

\* C24: the seven error kinds have pairwise distinct error-view
\* configurations: the view rendered for one kind is the configuration of no
\* other kind.
C24_DistinctConfigurations ==
    (call.op = "getErrorConfig" /\ call.pc = "done")
        => \A other \in PassCliErrorTypes \ {call.errorType} :
               getErrorConfig(other, call.contextTitle) # call.result

\* C24, for the five kinds that have a case of their own: the view of such a
\* kind differs from the view of every other kind in title, description and
\* icon.
C24_DistinctNamedKinds ==
    (call.op = "getErrorConfig" /\ call.pc = "done"
       /\ call.errorType \notin {"invalid_output", "unknown"})
        => \A other \in PassCliErrorTypes \ {call.errorType} :
               LET config == getErrorConfig(other, call.contextTitle)
               IN  /\ config.title # call.result.title
                   /\ config.description # call.result.description
                   /\ config.icon # call.result.icon

\* The message built for a failure classified unknown.
UnknownMessageDone == call.op = "unknownMessage" /\ call.pc = "done"

\* The message is the text when the text has at most 600 characters, and
\* otherwise its first 299 characters, an ellipsis and its last 300.
TruncatedTo600(text, message) ==
    /\ message.kind = "text"
    /\ Len(message.units) <= 600
    /\ IF Len(text) <= 600 THEN message.units = text
       ELSE /\ Len(message.units) = 600
            /\ SubSeq(message.units, 1, 299) = SubSeq(text, 1, 299)
            /\ message.units[300] = 8230
            /\ SubSeq(message.units, 301, 600) = SubSeq(text, Len(text) - 299, Len(text))

EnvelopePositions(value) ==
    {i \in 1..Len(wrapperKeys) : isRecord(Prop(value, wrapperKeys[i]))}

\* The value has an envelope key that holds an object.
Enveloping(value) == isRecord(value) /\ EnvelopePositions(value) # {}

\* The object under the first such key.
Descend(value) ==
    Prop(value, wrapperKeys[CHOOSE i \in EnvelopePositions(value) :
                                \A j \in EnvelopePositions(value) : i <= j])

\* The value after at most two descents.
StripTwo(value) ==
    IF ~Enveloping(value) THEN value
    ELSE IF ~Enveloping(Descend(value)) THEN Descend(value)
    ELSE Descend(Descend(value))

\* getItem has settled on an output that parses.
ItemParsed ==
    /\ call.op = "getItem" /\ call.pc = "done"
    /\ call.output.ok /\ call.output.v.kind = "json"

\* C27: getItem normalizes the response after at most two descents, each
\* into the first envelope key, in the order item, data, result, response,
\* payload, whose value is an object; a third envelope level is left in
\* place and a response without an envelope key is normalized as it is.
C27_AtMostTwoLevels ==
    ItemParsed => call.result = normalizeItemDetail(StripTwo(call.output.v.value))

\* C27 witness: a response in three envelope levels was normalized from its
\* third-level wrapper, which is no item, while the same item in two levels
\* normalizes.
C27_Witness ==
    /\ ItemParsed
    /\ Enveloping(StripTwo(call.output.v.value))
    /\ normalizeItemDetail(Descend(StripTwo(call.output.v.value))).ok
    /\ ~call.result.ok /\ call.result.type = "invalid_output"

\* C27 witness: a response in two envelope levels gave its item.
C27_WitnessTwoLevels ==
    /\ ItemParsed
    /\ Enveloping(call.output.v.value)
    /\ Enveloping(Descend(call.output.v.value))
    /\ call.result.ok

(***************************************************************************)
(* Claims about the failures of the view loads and the items slot.         *)
(***************************************************************************)
\* The load of a view has ended in its catch block: a call of the load
\* rejected with a classified failure.
LoadCaught(v) == v.pc = "done" /\ v.exit = "caught"

\* C25: a classified failure raised during a view load is never swallowed:
\* a load that ended in its catch block leaves the view in an error state.
C25_NoSilentSwallow ==
    /\ (cmd = "search" /\ LoadCaught(search)) => search.error # NoError
    /\ (cmd = "vaults" /\ LoadCaught(vlist)) => vlist.error # NoError
    /\ (cmd = "totp" /\ LoadCaught(totp)) => totp.error # NoError

\* C25, for the loads of the item-search and vault-list views that displayed
\* nothing from the cache: the failure is shown.
C25_ShownWhenNothingDisplayed ==
    /\ (cmd = "search" /\ LoadCaught(search) /\ ~search.hasLoadedFromCache)
          => search.error # NoError
    /\ (cmd = "vaults" /\ LoadCaught(vlist) /\ ~vlist.hasLoadedFromCache)
          => vlist.error # NoError

\* C28: whenever the items slot holds a valid entry, its data is the
\* all-vault listing of the account (as JSON gives it back): no flow of the vaults command writes the
\* item list of a single vault into the slot.
C28_ItemsSlotHoldsFullListing ==
    LET cachedItems == getCache(store[ITEMS_CACHE_KEY], FALSE, now)
    IN  Truthy(cachedItems) => cachedItems.data = StringifyList(AccountItems)

\* C28, for the vault list itself: loadVaults leaves the items slot as it
\* found it as long as no vault is opened.
C28_VaultListLeavesItems ==
    [][vitems = Closed /\ vitems' = Closed
          => store'[ITEMS_CACHE_KEY] = store[ITEMS_CACHE_KEY]]_vars

\* The fresh fetch of the load failed: checkAuth() gave false or a call
\* rejected.
LoadFailed(v) == v.pc = "done" /\ v.exit \in {"caught", "unauthenticated"}

\* C29: a load whose fresh fetch failed in a view that displayed nothing
\* from the cache ends in an error state; no view is left with an empty list
\* and no error.
C29_FailedLoadShowsError ==
    /\ (cmd = "search" /\ LoadFailed(search) /\ ~search.hasLoadedFromCache)
          => search.error # NoError
    /\ (cmd = "vaults" /\ LoadFailed(vlist) /\ ~vlist.hasLoadedFromCache)
          => vlist.error # NoError
    /\ (cmd = "totp" /\ LoadFailed(totp) /\ ~totp.shownFromCache)
          => totp.error # NoError

\* C29, for the TOTP view when the cache read gave nothing, and for the two
\* other views: the failed load ends in an error state.
C29_ShownWithoutCachedList ==
    /\ (cmd = "search" /\ LoadFailed(search) /\ ~search.hasLoadedFromCache)
          => search.error # NoError
    /\ (cmd = "vaults" /\ LoadFailed(vlist) /\ ~vlist.hasLoadedFromCache)
          => vlist.error # NoError
    /\ (cmd = "totp" /\ LoadFailed(totp) /\ ~totp.cachedItems)
          => totp.error # NoError

(***************************************************************************)
(* Claims about the termination of the flows.                              *)
(***************************************************************************)
\* The load of a view has completed and the view is no longer loading.
Loaded(v) == v.pc = "done" /\ ~v.isLoading

\* C30: when every call settles, every load flow that has started completes
\* with isLoading = false, and every refreshTotpCodes batch in flight
\* completes with isRefreshing = false, whatever the calls return.
C30_FlowsComplete ==
    /\ (search.pc = "cache") ~> Loaded(search)
    /\ (vlist.pc = "cache") ~> Loaded(vlist)
    /\ (vitems.pc = "cache") ~> Loaded(vitems)
    /\ (totp.pc = "cache") ~> Loaded(totp)
    /\ (Len(refreshes) > 0) ~> (lastBatch.done /\ ~totp.isRefreshing)

\* C30 witness: a load of a vault's items whose listing failed has completed,
\* with nothing displayed from the cache.
C30_Witness ==
    /\ cmd = "vaults" /\ vitems.pc = "done"
    /\ vitems.exit = "caught" /\ ~vitems.hasLoadedFromCache
    /\ ~vitems.isLoading

====
